---- MODULE Spec2Model ----
(***************************************************************************)
(* Personalization and pool-management engine of crazy-refresh-pull:       *)
(* the feedback store, the bounded video pool, the recommendation-model    *)
(* artifact with its in-memory cache, and the filter-and-rank pipeline.    *)
(*                                                                         *)
(* Strings that the code trims or tests for blankness (video ids) are      *)
(* sequences of characters.  Tables are sets or sequences of rows.         *)
(* Every public operation is one action; the record `ret` holds what the   *)
(* last completed call was given and what it returned.                     *)
(***************************************************************************)
EXTENDS Integers, Sequences, FiniteSets, TLC

VARIABLES
  feedback,     \* rows of table feedback (a plain row set: the key is enforced by upsert)
  videos,       \* rows of table videos, in rowid (insertion) order
  clock,        \* value of datetime('now'), whole seconds
  persisted,    \* value stored under MODEL_KEY in table model
  cachedModel,  \* module-level cache of services/index.ts
  ret,          \* [op, arg, out] of the last completed call
  calls         \* per caller: where its trainModel or model read stands, and its locals

vars == <<feedback, videos, clock, persisted, cachedModel, ret, calls>>

Null == "null"            \* SQL NULL / JS null
Undefined == "undefined"  \* JS undefined

----------------------------------------------------------------------------
(* Strings as character sequences *)

SP == " "

RECURSIVE trimStart(_)
trimStart(s) ==
  IF s = <<>> THEN s
  ELSE IF Head(s) = SP THEN trimStart(Tail(s)) ELSE s

RECURSIVE trimEnd(_)
trimEnd(s) ==
  IF s = <<>> THEN s
  ELSE IF s[Len(s)] = SP THEN trimEnd(SubSeq(s, 1, Len(s) - 1)) ELSE s

\* String.prototype.trim
trim(s) == trimEnd(trimStart(s))

isBlankEmptyOnly(videoId) == videoId = <<>>

\* the guard `!videoId || videoId.trim().length === 0`
isBlank(videoId) == videoId = <<>> \/ Len(trim(videoId)) = 0

----------------------------------------------------------------------------
(* Feedback repository (db-repositories/feedback.ts) *)

Sentiments == {"positive", "negative"}

MetaFields ==
  {"title", "description", "channelTitle", "publishedAt", "viewCount", "likeCount", "url"}

\* `x ?? null` of the column bindings
orNull(x) == IF x = Undefined THEN Null ELSE x

\* A call without metadata reads every `metadata?.f` as undefined: it is the
\* metadata whose fields are all undefined.
NoMetadata == [f \in MetaFields |-> Undefined]

\* `metadata?.f`
metaField(metadata, f) == metadata[f]

\* the columns bound by upsert for one call
feedbackRow(id, sentiment, metadata) ==
  [id |-> id, sentiment |-> sentiment,
   meta |-> [f \in MetaFields |-> orNull(metaField(metadata, f))]]

upsertPlainInsert(fb, data) == fb \cup {data}

\* INSERT ... ON CONFLICT (id) DO UPDATE SET sentiment, title, ..., url
upsert(fb, data) == {r \in fb : r.id # data.id} \cup {data}

deleteByIdPositive(fb, id) == {r \in fb : r.id # id \/ r.sentiment # "positive"}

\* DELETE FROM feedback WHERE id = ?
deleteById(fb, id) == {r \in fb : r.id # id}

\* SELECT id FROM feedback WHERE sentiment = ?
findIdsBySentiment(fb, sentiment) == {r.id : r \in {x \in fb : x.sentiment = sentiment}}

\* SELECT * FROM feedback WHERE sentiment = ?
findBySentiment(fb, sentiment) == {r \in fb : r.sentiment = sentiment}

\* SELECT sentiment FROM feedback WHERE id = ? ; null when no row
findSentimentById(fb, id) ==
  LET rows == {r \in fb : r.id = id}
  IN IF rows = {} THEN Null ELSE (CHOOSE r \in rows : TRUE).sentiment

findSentimentsByIdsFoundOnly(fb, ids) ==
  LET asked == {ids[i] : i \in 1..Len(ids)}
      rows == {r \in fb : r.id \in asked}
  IN [id \in {r.id : r \in rows} |-> (CHOOSE r \in rows : r.id = id).sentiment]

\* findSentimentsByIds: SELECT id, sentiment FROM feedback WHERE id = ANY(ids),
\* then one map entry per asked id, `found.get(id) ?? null`; the empty map for
\* no ids
findSentimentsByIds(fb, ids) ==
  LET asked == {ids[i] : i \in 1..Len(ids)}
      rows == {r \in fb : r.id \in asked}
      found == [id \in {r.id : r \in rows} |-> (CHOOSE r \in rows : r.id = id).sentiment]
  IN [id \in asked |-> IF id \in DOMAIN found THEN found[id] ELSE Null]

----------------------------------------------------------------------------
(* Feedback service (services/feedback.server) *)

Ret(op, arg, out) == [op |-> op, arg |-> arg, out |-> out]

\* shared body of addPositiveFeedback / addNegativeFeedback
addFeedback(op, sentiment, videoId, metadata) ==
  /\ IF isBlank(videoId)
       THEN /\ ret' = Ret(op, [videoId |-> videoId, metadata |-> metadata], "error")
            /\ UNCHANGED feedback
       ELSE /\ feedback' = upsert(feedback, feedbackRow(trim(videoId), sentiment, metadata))
            /\ ret' = Ret(op, [videoId |-> videoId, metadata |-> metadata], "ok")
  /\ UNCHANGED <<calls, videos, clock, persisted, cachedModel>>

addPositiveFeedback(videoId, metadata) ==
  addFeedback("addPositiveFeedback", "positive", videoId, metadata)

addNegativeFeedback(videoId, metadata) ==
  addFeedback("addNegativeFeedback", "negative", videoId, metadata)

removeFeedback(videoId) ==
  /\ IF isBlank(videoId)
       THEN /\ ret' = Ret("removeFeedback", [videoId |-> videoId], "error")
            /\ UNCHANGED feedback
       ELSE /\ feedback' = deleteById(feedback, trim(videoId))
            /\ ret' = Ret("removeFeedback", [videoId |-> videoId], "ok")
  /\ UNCHANGED <<calls, videos, clock, persisted, cachedModel>>

getPositiveFeedback(fb) == findIdsBySentiment(fb, "positive")

getNegativeFeedback(fb) == findIdsBySentiment(fb, "negative")

\* rowToMetadata: `row.f ?? undefined`
rowToMetadata(row) ==
  [f \in MetaFields |-> IF row.meta[f] = Null THEN Undefined ELSE row.meta[f]]
    @@ [id |-> row.id]

\* rowsToMetadataMap(findBySentiment(s)): the map from id to metadata
getFeedbackWithMetadata(fb, sentiment) ==
  LET rows == findBySentiment(fb, sentiment)
  IN [id \in {r.id : r \in rows} |-> rowToMetadata(CHOOSE r \in rows : r.id = id)]

getVideoFeedbackStatus(videoId) ==
  /\ ret' = Ret("getVideoFeedbackStatus", [videoId |-> videoId],
                findSentimentById(feedback, videoId))
  /\ UNCHANGED <<calls, feedback, videos, clock, persisted, cachedModel>>

getBatchVideoFeedbackStatus(videoIds) ==
  /\ ret' = Ret("getBatchVideoFeedbackStatus", [videoIds |-> videoIds],
                findSentimentsByIds(feedback, videoIds))
  /\ UNCHANGED <<calls, feedback, videos, clock, persisted, cachedModel>>

----------------------------------------------------------------------------
(* Video pool (db-repositories/videos.ts, services/video-pool.server.ts) *)

\* Pool capacity.  The code's value is 3000 (services/db.server.ts:9); the
\* model runs the same trim with a small capacity.
MAX_POOL_SIZE == 2

\* Batches handed to addToPool / writePool: every batch up to this length
MaxBatch == 2

\* Largest value of datetime('now'); at the cap every later insert shares it.
MaxClock == 1

\* `.filter((v) => v.id)`: drops videos with an empty id
filterHasId(vs) == SelectSeq(vs, LAMBDA v : v.id # <<>>)

\* A text is a sequence of characters.  The absent texts, undefined and null,
\* are the one-item sequences of the non-characters Undefined and Null.
UndefinedText == <<Undefined>>
NullText == <<Null>>

\* videoToInsert: `v.title ?? ""`, `v.description ?? null`
videoToInsert(v) ==
  [id |-> v.id,
   title |-> IF v.title = UndefinedText THEN <<>> ELSE v.title,
   description |-> IF v.description = UndefinedText THEN NullText ELSE v.description]

mapVideoToInsert(vs) == [i \in 1..Len(vs) |-> videoToInsert(vs[i])]

hasId(rows, id) == \E i \in 1..Len(rows) : rows[i].id = id

\* one `INSERT INTO videos` without OR IGNORE
insertIgnoreAlways(rows, v, now) ==
  Append(rows, [id |-> v.id, title |-> v.title, description |-> v.description,
                created_at |-> now])

insertIgnoreReplace(rows, v, now) ==
  Append(SelectSeq(rows, LAMBDA r : r.id # v.id),
         [id |-> v.id, title |-> v.title, description |-> v.description,
          created_at |-> now])

\* one `INSERT OR IGNORE INTO videos ... ` run at time `now`:
\* created_at DEFAULT (datetime('now')); a row with the id present is kept as it is
insertIgnore(rows, v, now) ==
  IF hasId(rows, v.id) THEN rows
  ELSE Append(rows, [id |-> v.id, title |-> v.title, description |-> v.description,
                     created_at |-> now])

\* insertMany: the loop of the transaction.  ticks[i] is the number of seconds
\* that pass before statement i runs.  The result is the table and `added`.
RECURSIVE insertManyFrom(_, _, _, _, _, _)
insertManyFrom(rows, vs, ticks, i, now, added) ==
  IF i > Len(vs) THEN [rows |-> rows, added |-> added, now |-> now]
  ELSE LET t == now + ticks[i]
       IN IF vs[i].id = <<>>
            THEN insertManyFrom(rows, vs, ticks, i + 1, t, added)
            ELSE LET next == insertIgnore(rows, vs[i], t)
                 IN insertManyFrom(next, vs, ticks, i + 1, t,
                                   IF Len(next) > Len(rows) THEN added + 1 ELSE added)

insertMany(rows, vs, ticks, now) == insertManyFrom(rows, vs, ticks, 1, now, 0)

\* the subsequence of rows at the positions in keep
keepRows(rows, keep) ==
  LET F[i \in 0..Len(rows)] ==
        IF i = 0 THEN <<>>
        ELSE IF i \in keep THEN Append(F[i - 1], rows[i]) ELSE F[i - 1]
  IN F[Len(rows)]

\* The position sets `SELECT id FROM videos ORDER BY created_at DESC LIMIT n`
\* may return: n rows (all rows when there are fewer) none of which is older
\* than a row left out.  SQL leaves the order among equal created_at open.
newestLimit(rows, n) ==
  {keep \in SUBSET (1..Len(rows)) :
     /\ Cardinality(keep) = (IF Len(rows) < n THEN Len(rows) ELSE n)
     /\ \A i \in keep : \A j \in (1..Len(rows)) \ keep :
          rows[i].created_at >= rows[j].created_at}

evictOldestNoop(rows) == {rows}

\* evictOldest: DELETE FROM videos WHERE id NOT IN (newest MAX_POOL_SIZE ids);
\* the set of tables the statement may leave
evictOldest(rows) == {keepRows(rows, keep) : keep \in newestLimit(rows, MAX_POOL_SIZE)}

\* count(): SELECT count(*) FROM videos
count(rows) == Len(rows)

TickSeqs(n) == [1..n -> {0, 1}]

sumTicks(ticks) ==
  LET F[i \in 0..Len(ticks)] == IF i = 0 THEN 0 ELSE F[i - 1] + ticks[i]
  IN F[Len(ticks)]

\* What `ret` keeps of a batch: the ids it names and its length.  For addToPool
\* it also keeps the table as insertMany left it, before evictOldest ran.
BatchArg(vs) == [ids |-> {vs[i].id : i \in 1..Len(vs)}, size |-> Len(vs)]

addToPool(newVideos) ==
  LET inserts == mapVideoToInsert(filterHasId(newVideos))
  IN \E ticks \in TickSeqs(Len(inserts)) :
       /\ clock + sumTicks(ticks) <= MaxClock
       /\ LET ins == insertMany(videos, inserts, ticks, clock)
          IN /\ videos' \in evictOldest(ins.rows)
             /\ clock' = ins.now
             /\ ret' = Ret("addToPool", BatchArg(newVideos) @@ [inserted |-> ins.rows],
                           [added |-> ins.added, total |-> count(videos')])
       /\ UNCHANGED <<calls, feedback, persisted, cachedModel>>

\* replaceAll: DELETE FROM videos, then the same INSERT OR IGNORE loop, one transaction
replaceAll(vs, ticks, now) == insertMany(<<>>, vs, ticks, now)

writePool(data) ==
  LET inserts == mapVideoToInsert(filterHasId(data))
  IN \E ticks \in TickSeqs(Len(inserts)) :
       /\ clock + sumTicks(ticks) <= MaxClock
       /\ LET ins == replaceAll(inserts, ticks, clock)
          IN /\ videos' = ins.rows
             /\ clock' = ins.now
             /\ ret' = Ret("writePool", BatchArg(data), "ok")
       /\ UNCHANGED <<calls, feedback, persisted, cachedModel>>

----------------------------------------------------------------------------
(* Recommendation model artifact (services/index.ts, db-repositories/model.ts) *)

\* Number of features the model expects.
FEATURE_COUNT == 10

\* What the model table holds under MODEL_KEY: no row, or a text.  A JSON text
\* is the value it encodes; the other texts are the empty string and a text
\* that is no JSON.
NoRow == [text |-> "norow"]
EmptyText == [text |-> "empty"]
GarbageText == [text |-> "garbage"]

\* JSON.stringify
stringify(data) == [text |-> "json", value |-> data]

\* JSON.parse succeeds
parses(raw) == raw.text = "json"

\* JSON.parse
parse(raw) == raw.value

\* JS values a parsed text or the cache can be
NoModel == [type |-> "null"]
JsonNumber == [type |-> "number"]

\* a JS array / a value that is no array
Array(items) == [array |-> TRUE, items |-> items]
NotArray == [array |-> FALSE]

\* Array.isArray
isArray(x) == x.array

\* getValue: SELECT value FROM model WHERE key = ? ; `row?.value ?? null`
getValue(store) == store

setValueTorn(store, value) ==
  IF parses(store) /\ parse(store).type = "object" /\ parses(value)
    THEN stringify([parse(value) EXCEPT !.bias = parse(store).bias])
    ELSE value

\* setValue: INSERT OR REPLACE INTO model (key, value): one statement replaces the row
setValue(store, value) == value

\* The weights and the bias gradient descent ends with are a function of the
\* examples it is run on; the model keeps that function uninterpreted and names
\* its value by the examples (and by the time of the run, which trainedAt records).
fit(positive, negative, patterns, at) ==
  [positive |-> positive, negative |-> negative, patterns |-> patterns, at |-> at]

weightsOf(f) == Array([i \in 1..FEATURE_COUNT |-> [fit |-> f, i |-> i]])

biasOf(f) == [fit |-> f]

\* what loadFeedbackPatterns mines: the metadata of both sentiment maps
loadFeedbackPatterns(fb) ==
  [positive |-> getFeedbackWithMetadata(fb, "positive"),
   negative |-> getFeedbackWithMetadata(fb, "negative")]

\* modelData as trainModel builds it
modelData(positive, negative, patterns, at) ==
  [type |-> "object",
   version |-> 1,
   weights |-> weightsOf(fit(positive, negative, patterns, at)),
   bias |-> biasOf(fit(positive, negative, patterns, at)),
   trainedAt |-> at,
   positiveCount |-> Cardinality(DOMAIN positive),
   negativeCount |-> Cardinality(DOMAIN negative)]

LoadResult(out, cache) == [out |-> out, cache |-> cache]

loadModelFromDbNoValidation(cache, store) ==
  IF cache # NoModel THEN LoadResult(cache, cache)
  ELSE LET raw == getValue(store)
       IN IF raw = NoRow \/ raw = EmptyText THEN LoadResult(NoModel, cache)
          ELSE IF ~parses(raw) THEN LoadResult(NoModel, cache)
          ELSE IF parse(raw).type # "object" THEN LoadResult(NoModel, cache)
          ELSE LoadResult(parse(raw), parse(raw))

\* loadModelFromDb: what it returns and what it leaves in cachedModel.
\*   `if (cachedModel) return cachedModel`, `if (!raw) return null`,
\*   a parse error or a property read of null is caught and gives null,
\*   a number has no version and fails the version test.
loadModelFromDb(cache, store) ==
  IF cache # NoModel THEN LoadResult(cache, cache)
  ELSE LET raw == getValue(store)
       IN IF raw = NoRow \/ raw = EmptyText THEN LoadResult(NoModel, cache)
          ELSE IF ~parses(raw) THEN LoadResult(NoModel, cache)
          ELSE IF parse(raw).type # "object" THEN LoadResult(NoModel, cache)
          ELSE LET data == parse(raw)
               IN IF \/ data.version # 1
                     \/ ~isArray(data.weights)
                     \/ Len(data.weights.items) # FEATURE_COUNT
                    THEN LoadResult(NoModel, cache)
                    ELSE LoadResult(data, data)

MIN_POSITIVE == 2
MIN_NEGATIVE == 2

tooFewBoth(positiveCount, negativeCount) ==
  positiveCount < MIN_POSITIVE /\ negativeCount < MIN_NEGATIVE

\* `positiveList.length < MIN_POSITIVE || negativeList.length < MIN_NEGATIVE`
tooFew(positiveCount, negativeCount) ==
  positiveCount < MIN_POSITIVE \/ negativeCount < MIN_NEGATIVE

saveModelStoreOnly(cache, store, data) ==
  [store |-> setValue(store, stringify(data)), cache |-> cache]

\* saveModel: setValue(MODEL_KEY, JSON.stringify(data)), then cachedModel = data
saveModel(cache, store, data) ==
  [store |-> setValue(store, stringify(data)), cache |-> data]

\* What a trainModel call returns; `artifact` is the modelData the call built
\* (NoModel when it built none), which is no part of the returned value.
TrainResult(success, positiveCount, negativeCount, artifact) ==
  [success |-> success, positiveCount |-> positiveCount,
   negativeCount |-> negativeCount, artifact |-> artifact]

\* trainModel, run with no other call in between
trainModel ==
  LET positive == getFeedbackWithMetadata(feedback, "positive")
      negativeMap == getFeedbackWithMetadata(feedback, "negative")
      positiveCount == Cardinality(DOMAIN positive)
      negativeCount == Cardinality(DOMAIN negativeMap)
  IN IF tooFew(positiveCount, negativeCount)
       THEN /\ ret' = Ret("trainModel", NoModel,
                          TrainResult(FALSE, positiveCount, negativeCount, NoModel))
            /\ UNCHANGED <<calls, feedback, videos, clock, persisted, cachedModel>>
       ELSE \E tick \in {0, 1} :
              /\ clock + tick <= MaxClock
              /\ clock' = clock + tick
              /\ LET data == modelData(positive, negativeMap,
                                       loadFeedbackPatterns(feedback), clock')
                     saved == saveModel(cachedModel, persisted, data)
                 IN /\ persisted' = saved.store
                    /\ cachedModel' = saved.cache
                    /\ ret' = Ret("trainModel", NoModel,
                                  TrainResult(TRUE, positiveCount, negativeCount, data))
              /\ UNCHANGED <<calls, feedback, videos>>

loadModel ==
  LET r == loadModelFromDb(cachedModel, persisted)
  IN /\ cachedModel' = r.cache
     /\ ret' = Ret("loadModel", NoModel, r.out)
     /\ UNCHANGED <<calls, feedback, videos, clock, persisted>>

isModelAvailable ==
  LET r == loadModelFromDb(cachedModel, persisted)
  IN /\ cachedModel' = r.cache
     /\ ret' = Ret("isModelAvailable", NoModel, r.out # NoModel)
     /\ UNCHANGED <<calls, feedback, videos, clock, persisted>>

\* sigmoid(bias + sum of weight * feature).  The model keeps the number
\* uninterpreted: it names it by the artifact and the video it is computed
\* from and takes its value (in hundredths) from the video.
sigmoidScore(model, video, patterns) ==
  [type |-> "number", weights |-> model.weights, bias |-> model.bias,
   video |-> video.id, value |-> video.affinity]

scoreWithDefault(model, video, fb) ==
  IF model = NoModel
    THEN [type |-> "number", weights |-> NotArray, bias |-> NoModel,
          video |-> video.id, value |-> 50]
    ELSE sigmoidScore(model, video, loadFeedbackPatterns(fb))

\* what scoreVideo returns on the model loadModelFromDb gave it
scoreWith(model, video, fb) ==
  IF model = NoModel THEN NoModel
  ELSE sigmoidScore(model, video, loadFeedbackPatterns(fb))

scoreVideo(video) ==
  LET r == loadModelFromDb(cachedModel, persisted)
  IN /\ cachedModel' = r.cache
     /\ ret' = Ret("scoreVideo", [video |-> video], scoreWith(r.out, video, feedback))
     /\ UNCHANGED <<calls, feedback, videos, clock, persisted>>

----------------------------------------------------------------------------
(* trainModel and the model reads as the event loop runs them: a call runs to
   its next await, and there any other call may run.  The awaits that touch
   the store or the cache are the steps below. *)

Callers == {"c1", "c2"}

EmptyMap == getFeedbackWithMetadata({}, "positive")

\* a caller with no call in progress, and the locals of a call
IdleCall ==
  [pc |-> "idle", op |-> "none", video |-> NoModel, raw |-> NoRow, data |-> NoModel,
   positive |-> EmptyMap, negative |-> EmptyMap, patterns |-> EmptyMap]

\* what the read `op` does with the value loadModelFromDb returned to it
gotModel(p, op, video, model) ==
  IF op = "scoreVideo" /\ model # NoModel
    THEN /\ calls' = [calls EXCEPT ![p] = [IdleCall EXCEPT !.pc = "patterns", !.op = op,
                                             !.video = video, !.data = model]]
         /\ UNCHANGED ret
    ELSE /\ calls' = [calls EXCEPT ![p] = IdleCall]
         /\ ret' = Ret(op,
                       IF op = "scoreVideo" THEN [video |-> video] ELSE NoModel,
                       IF op = "loadModel" THEN model
                       ELSE IF op = "isModelAvailable" THEN model # NoModel
                       ELSE NoModel)

\* loadModelFromDb up to `await modelRepo.getValue(MODEL_KEY)`
beginRead(p, op, video) ==
  /\ calls[p].pc = "idle"
  /\ IF cachedModel # NoModel
       THEN gotModel(p, op, video, loadModelFromDb(cachedModel, persisted).out)
       ELSE /\ calls' = [calls EXCEPT ![p] = [IdleCall EXCEPT !.pc = "loaded", !.op = op,
                                                !.video = video,
                                                !.raw = getValue(persisted)]]
            /\ UNCHANGED ret
  /\ UNCHANGED <<feedback, videos, clock, persisted, cachedModel>>

\* loadModelFromDb from the text it read to its return
finishRead(p) ==
  /\ calls[p].pc = "loaded"
  /\ LET r == loadModelFromDb(NoModel, calls[p].raw)
     IN /\ cachedModel' = IF r.out # NoModel THEN r.cache ELSE cachedModel
        /\ gotModel(p, calls[p].op, calls[p].video, r.out)
  /\ UNCHANGED <<feedback, videos, clock, persisted>>

\* scoreVideo: loadFeedbackPatterns, first read
scoreReadPositive(p) ==
  /\ calls[p].pc = "patterns"
  /\ calls' = [calls EXCEPT ![p].pc = "patterns2",
                            ![p].positive = getFeedbackWithMetadata(feedback, "positive")]
  /\ UNCHANGED <<feedback, videos, clock, persisted, cachedModel, ret>>

\* scoreVideo: loadFeedbackPatterns, second read, and the score
scoreReadNegative(p) ==
  /\ calls[p].pc = "patterns2"
  /\ LET patterns == [positive |-> calls[p].positive,
                      negative |-> getFeedbackWithMetadata(feedback, "negative")]
     IN ret' = Ret("scoreVideo", [video |-> calls[p].video],
                   sigmoidScore(calls[p].data, calls[p].video, patterns))
  /\ calls' = [calls EXCEPT ![p] = IdleCall]
  /\ UNCHANGED <<feedback, videos, clock, persisted, cachedModel>>

\* trainModel: `await getPositiveFeedbackWithMetadata()`
trainBegin(p) ==
  /\ calls[p].pc = "idle"
  /\ calls' = [calls EXCEPT ![p] = [IdleCall EXCEPT !.pc = "train", !.op = "trainModel",
                 !.positive = getFeedbackWithMetadata(feedback, "positive")]]
  /\ UNCHANGED <<feedback, videos, clock, persisted, cachedModel, ret>>

\* trainModel: `await getNegativeFeedbackWithMetadata()` and the sample test
trainReadNegative(p) ==
  /\ calls[p].pc = "train"
  /\ LET negativeMap == getFeedbackWithMetadata(feedback, "negative")
         positiveCount == Cardinality(DOMAIN calls[p].positive)
         negativeCount == Cardinality(DOMAIN negativeMap)
     IN IF tooFew(positiveCount, negativeCount)
          THEN /\ calls' = [calls EXCEPT ![p] = IdleCall]
               /\ ret' = Ret("trainModel", NoModel,
                             TrainResult(FALSE, positiveCount, negativeCount, NoModel))
          ELSE /\ calls' = [calls EXCEPT ![p].pc = "trainPatterns",
                                         ![p].negative = negativeMap]
               /\ UNCHANGED ret
  /\ UNCHANGED <<feedback, videos, clock, persisted, cachedModel>>

\* trainModel: loadFeedbackPatterns, first read
trainPatternsPositive(p) ==
  /\ calls[p].pc = "trainPatterns"
  /\ calls' = [calls EXCEPT ![p].pc = "trainPatterns2",
                            ![p].patterns = getFeedbackWithMetadata(feedback, "positive")]
  /\ UNCHANGED <<feedback, videos, clock, persisted, cachedModel, ret>>

\* trainModel: loadFeedbackPatterns, second read
trainPatternsNegative(p) ==
  /\ calls[p].pc = "trainPatterns2"
  /\ calls' = [calls EXCEPT ![p].pc = "fit",
                 ![p].patterns = [positive |-> calls[p].patterns,
                                  negative |-> getFeedbackWithMetadata(feedback, "negative")]]
  /\ UNCHANGED <<feedback, videos, clock, persisted, cachedModel, ret>>

\* trainModel: the examples, gradient descent, modelData, and saveModel up to
\* the end of `await modelRepo.setValue(...)`
trainSave(p) ==
  /\ calls[p].pc = "fit"
  /\ \E tick \in {0, 1} :
       /\ clock + tick <= MaxClock
       /\ clock' = clock + tick
       /\ LET data == modelData(calls[p].positive, calls[p].negative,
                                calls[p].patterns, clock')
          IN /\ persisted' = saveModel(cachedModel, persisted, data).store
             /\ calls' = [calls EXCEPT ![p].pc = "saved", ![p].data = data]
  /\ UNCHANGED <<feedback, videos, cachedModel, ret>>

\* trainModel: `cachedModel = data` and the return
trainFinish(p) ==
  /\ calls[p].pc = "saved"
  /\ cachedModel' = saveModel(cachedModel, persisted, calls[p].data).cache
  /\ ret' = Ret("trainModel", NoModel,
                TrainResult(TRUE, Cardinality(DOMAIN calls[p].positive),
                            Cardinality(DOMAIN calls[p].negative), calls[p].data))
  /\ calls' = [calls EXCEPT ![p] = IdleCall]
  /\ UNCHANGED <<feedback, videos, clock, persisted>>

----------------------------------------------------------------------------
(* Filter and rank pipeline (services/apply-filters-rank.server.ts) *)

\* Scores are hundredths.  The score analyzeVideo gives a video and the value
\* the sigmoid takes for it are numbers computed from its texts and counts; a
\* candidate carries both numbers as `heuristic` and `affinity`.
Candidate(id, heuristic, affinity) ==
  [id |-> id, heuristic |-> heuristic, affinity |-> affinity]

slice0Whole(s, end) == s

\* Array.prototype.slice(0, end)
slice0(s, end) ==
  LET k == IF end < 0 THEN (IF Len(s) + end < 0 THEN 0 ELSE Len(s) + end)
           ELSE (IF end > Len(s) THEN Len(s) ELSE end)
  IN SubSeq(s, 1, k)

\* out.filter((video) => !allFeedbackIds.has(video.id))
withoutIds(out, allFeedbackIds) == SelectSeq(out, LAMBDA v : v.id \notin allFeedbackIds)

excludePositiveOnly(out, fb) ==
  SelectSeq(out, LAMBDA v : v.id \notin getPositiveFeedback(fb))

\* out.filter((video) => !allFeedbackIds.has(video.id))
excludeFeedback(out, fb) ==
  withoutIds(out, getPositiveFeedback(fb) \cup getNegativeFeedback(fb))

\* analyzeVideo: `isAuthentic = score >= 0.4`
analyzeVideo(video, patterns) ==
  [videoId |-> video.id, isAuthentic |-> video.heuristic >= 40, score |-> video.heuristic]

\* analyzeVideos(videos): one result per video; a second argument is not read
analyzeVideos(vs, patterns) == [i \in 1..Len(vs) |-> analyzeVideo(vs[i], patterns)]

\* filterVideosByAnalysis(videos, analysisResults): a result with an empty
\* videoId is not put in the map; a video without analysis is kept
filterVideosByAnalysis(vs, analysisResults) ==
  LET analysed == {analysisResults[i].videoId : i \in 1..Len(analysisResults)} \ {<<>>}
      analysisOf(id) ==
        analysisResults[CHOOSE i \in 1..Len(analysisResults) :
                          /\ analysisResults[i].videoId = id
                          /\ \A j \in (i + 1)..Len(analysisResults) :
                               analysisResults[j].videoId # id]
  IN SelectSeq(vs, LAMBDA v : v.id \notin analysed \/ analysisOf(v.id).isAuthentic)

\* `score: (await scoreVideo(video)) ?? 0.5` for each video
scoreAll(vs, cache, store, fb) ==
  [i \in 1..Len(vs) |->
     LET score == scoreWith(loadModelFromDb(cache, store).out, vs[i], fb)
     IN [video |-> vs[i], score |-> IF score = NoModel THEN 50 ELSE score.value]]

RECURSIVE insertByScoreUnstable(_, _)
insertByScoreUnstable(sorted, x) ==
  IF sorted = <<>> THEN <<x>>
  ELSE IF sorted[Len(sorted)].score > x.score THEN Append(sorted, x)
  ELSE Append(insertByScoreUnstable(SubSeq(sorted, 1, Len(sorted) - 1), x),
              sorted[Len(sorted)])

\* scored.sort((a, b) => b.score - a.score): stable, descending
RECURSIVE insertByScore(_, _)
insertByScore(sorted, x) ==
  IF sorted = <<>> THEN <<x>>
  ELSE IF sorted[Len(sorted)].score >= x.score THEN Append(sorted, x)
  ELSE Append(insertByScore(SubSeq(sorted, 1, Len(sorted) - 1), x), sorted[Len(sorted)])

sortByScoreDesc(scored) ==
  LET F[i \in 0..Len(scored)] ==
        IF i = 0 THEN <<>> ELSE insertByScore(F[i - 1], scored[i])
  IN F[Len(scored)]

\* The steps of the pipeline that can throw: the feedback reads, the heuristic
\* filter, the isModelAvailable call, and a scoreVideo call
Steps == {"feedback", "filter", "available", "score"}

exclusionStepEmpty(out, fb, fails) ==
  IF "feedback" \in fails THEN <<>> ELSE excludeFeedback(out, fb)

\* the exclusion step: a failed feedback read leaves the list as it is
exclusionStep(out, fb, fails) ==
  IF "feedback" \in fails THEN out ELSE excludeFeedback(out, fb)

heuristicFilterBelow(out, authenticityThreshold, fb) ==
  SelectSeq(out, LAMBDA v : v.heuristic < authenticityThreshold)

\* analyzeVideos(out, authenticityThreshold), then
\* filterVideosByAnalysis(out, analysisResults, authenticityThreshold):
\* neither function has a parameter that receives the threshold
heuristicFilter(out, authenticityThreshold, fb) ==
  filterVideosByAnalysis(out, analyzeVideos(out, loadFeedbackPatterns(fb)))

\* the filter step: run when asked for and the list is not empty; a failure
\* leaves the list as it is
filterStep(out, useCustomFiltering, authenticityThreshold, fb, fails) ==
  IF useCustomFiltering /\ Len(out) > 0 /\ "filter" \notin fails
    THEN heuristicFilter(out, authenticityThreshold, fb)
    ELSE out

\* applyFiltersAndRank from the list the exclusion left: what it returns and
\* what it leaves in the cache
rankedFrom(excluded, maxResults, useCustomFiltering, authenticityThreshold, fails, fb, cache, store) ==
  LET filtered == filterStep(excluded, useCustomFiltering, authenticityThreshold,
                             fb, fails)
      truncated == slice0(filtered, maxResults)
      loaded == IF "available" \in fails THEN LoadResult(NoModel, cache)
                ELSE loadModelFromDb(cache, store)
      ranked ==
        IF loaded.out # NoModel /\ "score" \notin fails
          THEN LET sorted == sortByScoreDesc(scoreAll(truncated, loaded.cache, store, fb))
               IN [i \in 1..Len(sorted) |-> sorted[i].video]
          ELSE truncated
  IN [out |-> ranked, cache |-> loaded.cache]

\* ranking the whole filtered list and cutting it afterwards
rankedListRankFirst(vs, maxResults, useCustomFiltering, authenticityThreshold, fails, fb, cache, store) ==
  LET excluded == exclusionStep(vs, fb, fails)
      filtered == filterStep(excluded, useCustomFiltering, authenticityThreshold,
                             fb, fails)
      loaded == IF "available" \in fails THEN LoadResult(NoModel, cache)
                ELSE loadModelFromDb(cache, store)
      ranked ==
        IF loaded.out # NoModel /\ "score" \notin fails
          THEN LET sorted == sortByScoreDesc(scoreAll(filtered, loaded.cache, store, fb))
               IN [i \in 1..Len(sorted) |-> sorted[i].video]
          ELSE filtered
  IN [out |-> slice0(ranked, maxResults), cache |-> loaded.cache]

\* what applyFiltersAndRank returns on a feedback store, a cache and a stored
\* text, and what it leaves in the cache
rankedList(vs, maxResults, useCustomFiltering, authenticityThreshold, fails, fb, cache, store) ==
  rankedFrom(exclusionStep(vs, fb, fails), maxResults, useCustomFiltering,
             authenticityThreshold, fails, fb, cache, store)

applyFiltersAndRank(vs, maxResults, useCustomFiltering, authenticityThreshold, fails) ==
  LET r == rankedList(vs, maxResults, useCustomFiltering, authenticityThreshold, fails,
                      feedback, cachedModel, persisted)
  IN /\ cachedModel' = r.cache
     /\ ret' = Ret("applyFiltersAndRank",
                   [videos |-> vs, maxResults |-> maxResults,
                    useCustomFiltering |-> useCustomFiltering,
                    authenticityThreshold |-> authenticityThreshold, fails |-> fails],
                   r.out)
     /\ UNCHANGED <<calls, feedback, videos, clock, persisted>>

----------------------------------------------------------------------------
(* Pool reads (services/video-pool.server.ts, db-repositories/videos.ts) *)

\* rowToVideo: `row.description ?? ""`
rowToVideo(row) ==
  [id |-> row.id, title |-> row.title,
   description |-> IF row.description = NullText THEN <<>> ELSE row.description]

\* String.prototype.toLowerCase / SQL LOWER, on an alphabet with one capital
toLowerCase(s) == [i \in 1..Len(s) |-> IF s[i] = "A" THEN "a" ELSE s[i]]

\* String.prototype.split(/\s+/) of a trimmed text: the maximal runs of
\* non-blanks; the empty text gives the one empty token
splitBlanks(s) ==
  LET F[i \in 0..Len(s)] ==
        IF i = 0 THEN [acc |-> <<>>, cur |-> <<>>]
        ELSE IF s[i] = SP
               THEN IF F[i - 1].cur = <<>> THEN F[i - 1]
                    ELSE [acc |-> Append(F[i - 1].acc, F[i - 1].cur), cur |-> <<>>]
               ELSE [acc |-> F[i - 1].acc, cur |-> Append(F[i - 1].cur, s[i])]
  IN Append(F[Len(s)].acc, F[Len(s)].cur)

\* query.trim().toLowerCase().split(/\s+/).filter((t) => t.length >= 2)
searchTerms(query) ==
  SelectSeq(splitBlanks(toLowerCase(trim(query))), LAMBDA t : Len(t) >= 2)

\* String.prototype.includes
includes(s, t) == \E i \in 1..(Len(s) - Len(t) + 1) : SubSeq(s, i, i + Len(t) - 1) = t

\* SQL LIKE: `%` stands for any text, `_` for any one character
RECURSIVE like(_, _)
like(pattern, s) ==
  IF pattern = <<>> THEN s = <<>>
  ELSE IF Head(pattern) = "%"
         THEN like(Tail(pattern), s) \/ (s # <<>> /\ like(pattern, Tail(s)))
  ELSE /\ s # <<>>
       /\ Head(pattern) = "_" \/ Head(pattern) = Head(s)
       /\ like(Tail(pattern), Tail(s))

\* (LOWER(title) LIKE '%t%' OR LOWER(description) LIKE '%t%'); LIKE on a NULL
\* description is not true
matchesTerm(row, t) ==
  \/ like(<<"%">> \o t \o <<"%">>, toLowerCase(row.title))
  \/ /\ row.description # NullText
     /\ like(<<"%">> \o t \o <<"%">>, toLowerCase(row.description))

\* the orders in which a statement can return the rows at the positions in S
arrangements(S) ==
  {f \in [1..Cardinality(S) -> S] : \A i, j \in 1..Cardinality(S) : f[i] = f[j] => i = j}

\* findNewest: SELECT * FROM videos ORDER BY created_at DESC LIMIT ? ; the set
\* of row lists the statement may return
findNewest(rows, limit) ==
  UNION {{[i \in DOMAIN f |-> rows[f[i]]] :
            f \in {g \in arrangements(keep) :
                     \A i, j \in DOMAIN g :
                       i < j => rows[g[i]].created_at >= rows[g[j]].created_at}} :
         keep \in newestLimit(rows, limit)}

\* searchByTerms: findNewest for no terms, else SELECT * FROM videos WHERE
\* (a term matches) LIMIT ? , which has no ORDER BY: any `limit` of the
\* matching rows, in any order
searchByTerms(rows, terms, limit) ==
  IF Len(terms) = 0 THEN findNewest(rows, limit)
  ELSE LET matching == {i \in 1..Len(rows) :
                          \E k \in 1..Len(terms) : matchesTerm(rows[i], terms[k])}
           n == IF Cardinality(matching) < limit THEN Cardinality(matching) ELSE limit
       IN UNION {{[i \in DOMAIN f |-> rows[f[i]]] : f \in arrangements(keep)} :
                 keep \in {S \in SUBSET matching : Cardinality(S) = n}}

\* the score of searchPool's loop over the terms:
\* `if (title.includes(t)) score += 2; else if (desc.includes(t)) score += 1`
matchScore(row, terms) ==
  LET title == toLowerCase(row.title)
      desc == toLowerCase(rowToVideo(row).description)
      F[k \in 0..Len(terms)] ==
        IF k = 0 THEN 0
        ELSE F[k - 1] + (IF includes(title, terms[k]) THEN 2
                         ELSE IF includes(desc, terms[k]) THEN 1 ELSE 0)
  IN F[Len(terms)]

\* the lists searchPool may return on a table
searchPoolResults(rows, query, limit) ==
  LET terms == searchTerms(query)
      ranked(found) ==
        LET scored == [i \in 1..Len(found) |->
                         [row |-> found[i], score |-> matchScore(found[i], terms)]]
            sorted == sortByScoreDesc(scored)
        IN IF Len(terms) = 0
             THEN [i \in 1..Len(found) |-> rowToVideo(found[i])]
             ELSE [i \in 1..Len(sorted) |-> rowToVideo(sorted[i].row)]
  IN {ranked(found) : found \in searchByTerms(rows, terms, limit)}

searchPool(query, limit) ==
  /\ \E out \in searchPoolResults(videos, query, limit) :
       ret' = Ret("searchPool", [query |-> query, limit |-> limit], out)
  /\ UNCHANGED <<calls, feedback, videos, clock, persisted, cachedModel>>

\* lastUpdatedAt: SELECT created_at ... ORDER BY created_at DESC LIMIT 1
lastUpdatedAt(rows) ==
  IF Len(rows) = 0 THEN Null
  ELSE CHOOSE t \in {rows[i].created_at : i \in 1..Len(rows)} :
         \A i \in 1..Len(rows) : rows[i].created_at <= t

getPoolStatus ==
  /\ ret' = Ret("getPoolStatus", NoModel,
                IF count(videos) = 0 THEN [count |-> 0, updatedAt |-> Null]
                ELSE [count |-> count(videos), updatedAt |-> lastUpdatedAt(videos)])
  /\ UNCHANGED <<calls, feedback, videos, clock, persisted, cachedModel>>

\* findRandom: SELECT ... WHERE NOT (id = ANY(excludeIds)) ORDER BY RANDOM() LIMIT ?
findRandom(limit, excludeIds) ==
  LET eligible == {i \in 1..Len(videos) : videos[i].id \notin excludeIds}
      n == IF Cardinality(eligible) < limit THEN Cardinality(eligible) ELSE limit
  IN /\ \E keep \in {S \in SUBSET eligible : Cardinality(S) = n} :
          \E f \in arrangements(keep) :
            ret' = Ret("findRandom", [limit |-> limit, excludeIds |-> excludeIds],
                       [i \in DOMAIN f |-> videos[f[i]]])
     /\ UNCHANGED <<calls, feedback, videos, clock, persisted, cachedModel>>

----------------------------------------------------------------------------
(* Initial state and inputs *)

\* Video ids the calls are made with: plain, padded with spaces, blank, empty
IdA == <<"a">>
IdB == <<"b">>
IdC == <<"c">>
IdD == <<"d">>

RawIds == {<<>>, <<SP>>, IdA, <<SP, "a">>, <<"b", SP>>}

Meta1 ==
  [title |-> "t1", description |-> "d1", channelTitle |-> "ch1", publishedAt |-> "p1",
   viewCount |-> "100", likeCount |-> "5", url |-> "u1"]

Meta2 ==
  [title |-> "t2", description |-> Undefined, channelTitle |-> "ch2",
   publishedAt |-> Undefined, viewCount |-> Undefined, likeCount |-> Undefined,
   url |-> "u2"]

Metas == {NoMetadata, Meta1, Meta2}

\* An artifact of an earlier run of the process, trained on four records
OldFeedback ==
  {feedbackRow(IdA, "positive", NoMetadata), feedbackRow(IdB, "positive", NoMetadata),
   feedbackRow(IdC, "negative", Meta1), feedbackRow(IdD, "negative", NoMetadata)}

OldModel ==
  modelData(getFeedbackWithMetadata(OldFeedback, "positive"),
            getFeedbackWithMetadata(OldFeedback, "negative"),
            loadFeedbackPatterns(OldFeedback), 0)

\* What an earlier run, or the migration of recommendation-model.json, can
\* have left in the model table
InitRaws ==
  {NoRow, EmptyText, GarbageText, stringify(NoModel), stringify(JsonNumber),
   stringify([OldModel EXCEPT !.version = 2]),
   stringify([OldModel EXCEPT !.weights = NotArray]),
   stringify([OldModel EXCEPT !.weights = Array(SubSeq(OldModel.weights.items, 1, FEATURE_COUNT - 1))]),
   stringify(OldModel)}

Init ==
  /\ feedback = {}
  /\ videos = <<>>
  /\ clock = 0
  /\ persisted \in InitRaws
  /\ cachedModel = NoModel
  /\ ret = Ret("start", NoModel, NoModel)
  /\ calls = [p \in Callers |-> IdleCall]

----------------------------------------------------------------------------
(* The feedback store under any sequence of calls *)

InitFeedback == Init /\ persisted = NoRow

\* Longest id list of a batch status read
MaxIds == 2

IdLists == UNION {[1..k -> RawIds] : k \in 0..MaxIds}

NextFeedback ==
  \/ \E id \in RawIds, m \in Metas : addPositiveFeedback(id, m)
  \/ \E id \in RawIds, m \in Metas : addNegativeFeedback(id, m)
  \/ \E id \in RawIds : removeFeedback(id)
  \/ \E id \in RawIds : getVideoFeedbackStatus(id)
  \/ \E ids \in IdLists : getBatchVideoFeedbackStatus(ids)

SpecFeedback == InitFeedback /\ [][NextFeedback]_vars

rowsOfId(fb, id) == {r \in fb : r.id = id}

isWrite(op) == op \in {"addPositiveFeedback", "addNegativeFeedback"}

sentimentOfOp(op) == IF op = "addPositiveFeedback" THEN "positive" ELSE "negative"

\* C5: at most one feedback record per id, and a completed write leaves, for
\* its id, exactly the record with the sentiment and the metadata it was given
\* (absent fields stored as NULL), every other id's records staying as they were.
C5_UpsertLastWriteWins ==
  [][ /\ \A id \in {r.id : r \in feedback'} : Cardinality(rowsOfId(feedback', id)) = 1
      /\ (isWrite(ret'.op) /\ ret'.out = "ok") =>
           /\ rowsOfId(feedback', trim(ret'.arg.videoId)) =
                {[id |-> trim(ret'.arg.videoId), sentiment |-> sentimentOfOp(ret'.op),
                  meta |-> [f \in MetaFields |-> orNull(ret'.arg.metadata[f])]]}
           /\ \A id \in {r.id : r \in feedback \cup feedback'} \ {trim(ret'.arg.videoId)} :
                rowsOfId(feedback', id) = rowsOfId(feedback, id)
      /\ ~isWrite(ret'.op) /\ ret'.op # "removeFeedback" => feedback' = feedback
    ]_vars

\* C5 witness: a record written positive with one metadata and then negative
\* with another holds the second write
C5_Witness ==
  /\ ret.op = "addNegativeFeedback" /\ ret.out = "ok" /\ ret.arg.metadata = Meta2
  /\ \E r \in feedback : r.id = trim(ret.arg.videoId) /\ r.sentiment = "negative"
                          /\ r.meta.title = "t2" /\ r.meta.description = Null

\* C6: a completed feedback write followed immediately by getVideoFeedbackStatus
\* with the same id argument returns the sentiment just written, and a completed
\* removeFeedback followed by it returns null.
C6_RoundTrip ==
  [][ /\ ret'.op = "getVideoFeedbackStatus"
      /\ isWrite(ret.op) \/ ret.op = "removeFeedback"
      /\ ret.out = "ok"
      /\ ret'.arg.videoId = ret.arg.videoId
      => ret'.out = (IF isWrite(ret.op) THEN sentimentOfOp(ret.op) ELSE Null)
    ]_vars

\* C17: the mapping getBatchVideoFeedbackStatus returns has one entry for
\* each id asked for: the stored sentiment when the id has a record, null when
\* it has none.
C17_BatchStatusTotal ==
  ret.op = "getBatchVideoFeedbackStatus" =>
    /\ DOMAIN ret.out = {ret.arg.videoIds[i] : i \in 1..Len(ret.arg.videoIds)}
    /\ \A id \in DOMAIN ret.out :
         IF \E r \in feedback : r.id = id
           THEN \E r \in feedback : r.id = id /\ r.sentiment = ret.out[id]
           ELSE ret.out[id] = Null

\* C17 witness: a read of two ids, one with a record and one without, returned
\* the sentiment for the first and null for the second
C17_Witness ==
  /\ ret.op = "getBatchVideoFeedbackStatus"
  /\ Len(ret.arg.videoIds) = 2
  /\ ret.arg.videoIds[1] # ret.arg.videoIds[2]
  /\ ret.out[ret.arg.videoIds[1]] = "negative"
  /\ ret.out[ret.arg.videoIds[2]] = Null

isFeedbackChange(op) == isWrite(op) \/ op = "removeFeedback"

\* C22: a feedback write or removal called with an empty or blank id ends
\* with an error for the caller and leaves the feedback store as it was.
C22_BlankIdRejected ==
  [][ isFeedbackChange(ret'.op) /\ Len(trim(ret'.arg.videoId)) = 0 =>
        ret'.out = "error" /\ feedback' = feedback
    ]_vars

\* C22 witness: removeFeedback called with a single blank on a store that
\* holds records ended with the error
C22_Witness ==
  /\ ret.op = "removeFeedback" /\ ret.arg.videoId = <<SP>> /\ ret.out = "error"
  /\ feedback # {}

\* C23: removeFeedback with a non-blank id raises no error and deletes exactly
\* the record of the trimmed id, if there is one: every other record stays,
\* the id has no sentiment afterwards and the exclusion filter keeps it.
C23_RemoveFeedback ==
  [][ ret'.op = "removeFeedback" /\ Len(trim(ret'.arg.videoId)) > 0 =>
        LET id == trim(ret'.arg.videoId)
        IN /\ ret'.out = "ok"
           /\ feedback' = {r \in feedback : r.id # id}
           /\ rowsOfId(feedback, id) = {} => feedback' = feedback
           /\ findSentimentById(feedback', id) = Null
           /\ excludeFeedback(<<[id |-> id]>>, feedback') = <<[id |-> id]>>
    ]_vars

\* C23 witness: a removal by an id padded with a blank went through on a
\* store that still holds the negative record of another id with its metadata
C23_Witness ==
  /\ ret.op = "removeFeedback" /\ ret.out = "ok" /\ ret.arg.videoId = <<"b", SP>>
  /\ rowsOfId(feedback, IdB) = {}
  /\ \E r \in feedback : r.id = IdA /\ r.sentiment = "negative" /\ r.meta.title = "t2"

----------------------------------------------------------------------------
(* The video pool under any sequence of addToPool and writePool calls *)

Video(id, title, description) == [id |-> id, title |-> title, description |-> description]

\* Videos handed to the pool: one without id, one id under two contents, one
\* whose title and description both hold "ab", one without title
PoolVideos ==
  {Video(<<>>, <<"a", "b">>, UndefinedText),
   Video(IdA, <<"a", "b">>, UndefinedText),
   Video(IdA, <<"c", "d">>, <<"a", "b">>),
   Video(IdB, <<"A", "b">>, <<"x", "a", "b">>),
   Video(IdC, UndefinedText, UndefinedText)}

\* Batches that overflow an empty pool in one call
OverflowBatches ==
  {<<Video(IdA, <<"a", "b">>, UndefinedText), Video(IdB, <<"A", "b">>, <<"x", "a", "b">>),
     Video(IdC, UndefinedText, UndefinedText)>>,
   <<Video(IdC, UndefinedText, UndefinedText), Video(IdA, <<"c", "d">>, <<"a", "b">>),
     Video(IdB, <<"A", "b">>, <<"x", "a", "b">>)>>}

Batches == UNION {[1..k -> PoolVideos] : k \in 0..MaxBatch} \cup OverflowBatches

InitPool == Init /\ persisted = NoRow

NextPool ==
  \/ \E b \in Batches : addToPool(b)
  \/ \E b \in Batches : writePool(b)

SpecPool == InitPool /\ [][NextPool]_vars

idsOfRows(rows) == {rows[i].id : i \in 1..Len(rows)}

\* C2: when an addToPool call has completed, the pool holds at most
\* MAX_POOL_SIZE entries, whatever it held before the call.
C2_EvictionBound ==
  ret.op = "addToPool" => count(videos) <= MAX_POOL_SIZE /\ ret.out.total <= MAX_POOL_SIZE

\* C2 witness: an addToPool call that found the pool over-full (left so by
\* writePool), added nothing and trimmed it to the capacity
C2_Witness ==
  /\ ret.op = "addToPool"
  /\ ret.out.added = 0
  /\ Len(ret.arg.inserted) > MAX_POOL_SIZE
  /\ count(videos) = MAX_POOL_SIZE

\* C3: when eviction triggers, the entries that remain are the MAX_POOL_SIZE
\* most recently inserted ones, in every outcome of the eviction.
C3_RetainsMostRecent ==
  ret.op = "addToPool" /\ Len(ret.arg.inserted) > MAX_POOL_SIZE =>
    videos = SubSeq(ret.arg.inserted, Len(ret.arg.inserted) - MAX_POOL_SIZE + 1,
                    Len(ret.arg.inserted))

\* C4: an addToPool call leaves no id with two entries, and the number it
\* returns as added counts each id of the batch that was not in the pool once.
C4_PoolDedup ==
  [][ ret'.op = "addToPool" =>
        /\ \A i, j \in 1..Len(ret'.arg.inserted) :
             ret'.arg.inserted[i].id = ret'.arg.inserted[j].id => i = j
        /\ \A i, j \in 1..Len(videos') : videos'[i].id = videos'[j].id => i = j
        /\ ret'.out.added =
             Cardinality((ret'.arg.ids \ {<<>>}) \ idsOfRows(videos))
    ]_vars

\* C4 witness: a completed call whose batch named one id twice and added it once
C4_Witness ==
  /\ ret.op = "addToPool"
  /\ ret.arg.size = 2 /\ Cardinality(ret.arg.ids) = 1 /\ <<>> \notin ret.arg.ids
  /\ ret.out.added = 1

\* C30: between calls the pool holds at most MAX_POOL_SIZE entries, for every
\* sequence of addToPool and writePool calls.
C30_PoolWithinCapacity == count(videos) <= MAX_POOL_SIZE

----------------------------------------------------------------------------
(* The pool written one video at a time and read by search, sample and status *)

Batches1 == {<<v>> : v \in PoolVideos}

\* Queries: empty, one short token, one term, two terms among blanks and in
\* capitals, a term of LIKE wildcards
Queries ==
  {<<>>, <<"a">>, <<"a", "b">>, <<SP, "A", "b", SP, SP, "c", "d">>, <<"_", "_">>}

\* Largest limit of a pool read
MaxLimit == 3

Limits == {1, MaxLimit}

NextSearch ==
  \/ \E b \in Batches1 : addToPool(b)
  \/ \E b \in Batches1 : writePool(b)
  \/ \E q \in Queries, l \in Limits : searchPool(q, l)
  \/ \E l \in Limits, x \in {{}, {IdA}} : findRandom(l, x)
  \/ getPoolStatus

SpecSearch == InitPool /\ [][NextSearch]_vars

\* the position of the pool entry with this id
posOf(id) == CHOOSE i \in 1..Len(videos) : videos[i].id = id

\* the text of a stored description, empty when there is none
descriptionText(row) == IF row.description = NullText THEN <<>> ELSE row.description

\* 2 for each term found in the title plus 1 for each term found in the
\* description, the two counted independently
independentScore(row, terms) ==
  LET F[k \in 0..Len(terms)] ==
        IF k = 0 THEN 0
        ELSE F[k - 1]
             + (IF includes(toLowerCase(row.title), terms[k]) THEN 2 ELSE 0)
             + (IF includes(toLowerCase(descriptionText(row)), terms[k]) THEN 1 ELSE 0)
  IN F[Len(terms)]

\* C18: the results of a search with terms are in descending order of the
\* score that counts 2 per term in the title and 1 per term in the description
\* independently, entries of equal score in insertion order.
C18_MatchScoreOrder ==
  ret.op = "searchPool" /\ Len(searchTerms(ret.arg.query)) > 0 =>
    \A i, j \in 1..Len(ret.out) :
      i < j =>
        LET terms == searchTerms(ret.arg.query)
            a == posOf(ret.out[i].id)
            b == posOf(ret.out[j].id)
        IN \/ independentScore(videos[a], terms) > independentScore(videos[b], terms)
           \/ /\ independentScore(videos[a], terms) = independentScore(videos[b], terms)
              /\ a < b

\* C19: a search without terms returns the `limit` most recently inserted
\* entries (all when there are fewer); a search with terms returns at most
\* `limit` entries, each holding a term in its title or description.
C19_SearchResultSet ==
  ret.op = "searchPool" =>
    LET terms == searchTerms(ret.arg.query)
        n == IF Len(videos) < ret.arg.limit THEN Len(videos) ELSE ret.arg.limit
    IN IF Len(terms) = 0
         THEN /\ Len(ret.out) = n
              /\ {ret.out[i].id : i \in 1..Len(ret.out)} =
                   {videos[i].id : i \in (Len(videos) - n + 1)..Len(videos)}
         ELSE /\ Len(ret.out) <= ret.arg.limit
              /\ \A i \in 1..Len(ret.out) :
                   \E k \in 1..Len(terms) :
                     \/ includes(toLowerCase(ret.out[i].title), terms[k])
                     \/ includes(toLowerCase(ret.out[i].description), terms[k])

\* C20: a call other than writePool leaves every entry that stays in the pool
\* as it was, created_at included, and the entries an addToPool call evicts
\* are none newer by created_at than the ones it keeps.
C20_EntriesNeverMutated ==
  [][ ret'.op # "writePool" =>
        /\ \A i \in 1..Len(videos), j \in 1..Len(videos') :
             videos[i].id = videos'[j].id => videos[i] = videos'[j]
        /\ ret'.op # "addToPool" => videos' = videos
        /\ ret'.op = "addToPool" =>
             \A i \in 1..Len(ret'.arg.inserted), j \in 1..Len(videos') :
               (\A k \in 1..Len(videos') : videos'[k].id # ret'.arg.inserted[i].id)
                 => ret'.arg.inserted[i].created_at <= videos'[j].created_at
    ]_vars

\* C20 witness: the pool holds one entry admitted at second 0; an addToPool
\* call ran its insert for the same id at second 1, added nothing, and the
\* entry still carries second 0
C20_Witness ==
  /\ ret.op = "addToPool" /\ ret.out.added = 0
  /\ ret.arg.size = 1 /\ ret.arg.ids = {IdA}
  /\ clock = 1
  /\ Len(videos) = 1 /\ videos[1].id = IdA /\ videos[1].created_at = 0

----------------------------------------------------------------------------
(* Training and model reads, one call at a time *)

PlainIds == {IdA, IdB, IdC, IdD}

ScoreVideos == {Candidate(IdA, 50, 30), Candidate(IdB, 30, 70)}

NextModel ==
  \/ \E id \in PlainIds : addPositiveFeedback(id, NoMetadata)
  \/ \E id \in PlainIds : addNegativeFeedback(id, NoMetadata)
  \/ \E id \in PlainIds : removeFeedback(id)
  \/ trainModel
  \/ loadModel
  \/ isModelAvailable
  \/ \E v \in ScoreVideos : scoreVideo(v)

SpecModel == Init /\ [][NextModel]_vars

countOf(fb, sentiment) == Cardinality({r \in fb : r.sentiment = sentiment})

\* C7: a trainModel call made while the store holds fewer than 2 positive or
\* fewer than 2 negative records returns success = false with the store's
\* counts and leaves the persisted artifact and the cached artifact unchanged.
C7_TrainingPrecondition ==
  [][ /\ ret'.op = "trainModel"
      /\ countOf(feedback, "positive") < 2 \/ countOf(feedback, "negative") < 2
      => /\ ret'.out.success = FALSE
         /\ ret'.out.positiveCount = countOf(feedback, "positive")
         /\ ret'.out.negativeCount = countOf(feedback, "negative")
         /\ persisted' = persisted
         /\ cachedModel' = cachedModel
    ]_vars

\* C7 witness: training refused with 1 positive and 3 negative records while an
\* artifact is stored and cached
C7_Witness ==
  /\ ret.op = "trainModel" /\ ret.out.success = FALSE
  /\ ret.out.positiveCount = 1 /\ ret.out.negativeCount = 3
  /\ cachedModel # NoModel /\ persisted = stringify(cachedModel)

isModelRead(op) == op \in {"loadModel", "isModelAvailable", "scoreVideo"}

\* C8: the model read that follows a successful trainModel call observes the
\* artifact that call built: loadModel returns it, isModelAvailable is true and
\* scoreVideo scores with it.
C8_NextReadSeesNewArtifact ==
  [][ ret.op = "trainModel" /\ ret.out.success /\ isModelRead(ret'.op) =>
        /\ ret'.op = "loadModel" => ret'.out = ret.out.artifact
        /\ ret'.op = "isModelAvailable" => ret'.out = TRUE
        /\ ret'.op = "scoreVideo" =>
             ret'.out = sigmoidScore(ret.out.artifact, ret'.arg.video,
                                     loadFeedbackPatterns(feedback))
    ]_vars

\* C8 witness: a second successful training, run over a cached earlier
\* artifact, followed by a loadModel that returned the new artifact
C8_Witness ==
  /\ ret.op = "loadModel"
  /\ ret.out # NoModel /\ ret.out # OldModel
  /\ ret.out.trainedAt = 1
  /\ cachedModel = ret.out /\ persisted = stringify(ret.out)

\* the stored text decodes to an artifact of version 1 with FEATURE_COUNT weights
validStored(store) ==
  /\ parses(store)
  /\ parse(store).type = "object"
  /\ parse(store).version = 1
  /\ parse(store).weights.array
  /\ Len(parse(store).weights.items) = FEATURE_COUNT

\* C10: isModelAvailable returns true exactly when the stored text is a valid
\* artifact, and scoreVideo returns null exactly when it is not; neither call
\* fails on a stored text that does not parse or does not validate.
C10_AvailabilityIffValid ==
  [][ /\ ret'.op = "isModelAvailable" => ret'.out = validStored(persisted)
      /\ ret'.op = "scoreVideo" => ((ret'.out = NoModel) <=> ~validStored(persisted))
    ]_vars

\* C10 witness: isModelAvailable answered false on a stored artifact that
\* parses but fails validation
C10_Witness ==
  /\ ret.op = "isModelAvailable" /\ ret.out = FALSE
  /\ parses(persisted) /\ parse(persisted).type = "object"

\* C11: a scoreVideo call made while no artifact is stored returns null for
\* every video, and no number (0, 0.5 or any other) in its place.
C11_ScoreNullWithoutModel ==
  [][ ret'.op = "scoreVideo" /\ persisted = NoRow =>
        ret'.out = NoModel /\ ret'.out.type # "number"
    ]_vars

\* C11 witness: feedback was written, nothing was ever trained, and scoreVideo
\* answered null
C11_Witness ==
  /\ ret.op = "scoreVideo" /\ ret.out = NoModel
  /\ persisted = NoRow /\ cachedModel = NoModel
  /\ feedback # {}

----------------------------------------------------------------------------
(* The pipeline over any feedback store, with and without a model *)

CandidateVideos ==
  {Candidate(IdA, 50, 30), Candidate(IdB, 30, 70), Candidate(IdC, 40, 70)}

\* Longest candidate list
MaxCandidates == 3

CandidateLists == UNION {[1..k -> CandidateVideos] : k \in 0..MaxCandidates}

MaxResultsValues == {-1, 0, 2, 5}

Thresholds == {40, 60}

\* at most one step fails in a call
FailureSets == {{}} \cup {{x} : x \in Steps}

InitPipeline == Init /\ persisted \in {NoRow, stringify(OldModel)}

\* the response of the last call has been handed over
delivered == ret.op = "start"

deliver ==
  /\ ~delivered
  /\ ret' = Ret("start", NoModel, NoModel)
  /\ UNCHANGED <<calls, feedback, videos, clock, persisted, cachedModel>>

\* Calls are made one after the other, each after the response of the one
\* before was handed over.
NextPipeline ==
  \/ delivered /\ \E id \in {IdA, IdB, IdC} : addPositiveFeedback(id, NoMetadata)
  \/ delivered /\ \E id \in {IdA, IdB, IdC} : addNegativeFeedback(id, NoMetadata)
  \/ delivered /\ \E id \in {IdA, IdB, IdC} : removeFeedback(id)
  \/ delivered /\ \E vs \in CandidateLists, n \in MaxResultsValues, f \in BOOLEAN,
                     t \in Thresholds, fails \in FailureSets :
                    applyFiltersAndRank(vs, n, f, t, fails)
  \/ deliver

SpecPipeline == InitPipeline /\ [][NextPipeline]_vars

\* C1: a list returned by applyFiltersAndRank whose feedback reads succeeded
\* holds no item whose id has a feedback record.
C1_ExclusionInvariant ==
  ret.op = "applyFiltersAndRank" /\ "feedback" \notin ret.arg.fails =>
    \A i \in 1..Len(ret.out) : \A r \in feedback : r.id # ret.out[i].id

\* C1 witness: candidates with a positive and with a negative record were
\* handed in and left out, and an unlabeled candidate was returned
C1_Witness ==
  /\ ret.op = "applyFiltersAndRank" /\ "feedback" \notin ret.arg.fails
  /\ \E i, j \in 1..Len(ret.arg.videos) :
       /\ findSentimentById(feedback, ret.arg.videos[i].id) = "positive"
       /\ findSentimentById(feedback, ret.arg.videos[j].id) = "negative"
  /\ Len(ret.out) > 0

\* the candidates of vs that have no feedback record, in the order of vs
unlabeled(vs, fb) == SelectSeq(vs, LAMBDA v : \A r \in fb : r.id # v.id)

\* the first n items of s (all of s when it has fewer)
firstN(s, n) == SubSeq(s, 1, IF n < Len(s) THEN n ELSE Len(s))

\* a call in which no step failed
cleanCall == ret.op = "applyFiltersAndRank" /\ ret.arg.fails = {}

\* C12: with the heuristic filter off and no trained model, the list returned
\* is the candidates without a feedback record, in their order, cut to the
\* first maxResults (maxResults >= 0).
C12_NoFilterNoModel ==
  /\ cleanCall /\ ~ret.arg.useCustomFiltering /\ persisted = NoRow
  /\ ret.arg.maxResults >= 0
  => ret.out = firstN(unlabeled(ret.arg.videos, feedback), ret.arg.maxResults)

\* C12 witness: three candidates, the first labeled positive, the second
\* negative; the call returned the third alone
C12_Witness ==
  /\ cleanCall /\ ~ret.arg.useCustomFiltering /\ persisted = NoRow
  /\ Len(ret.arg.videos) = 3 /\ ret.arg.maxResults = 5
  /\ findSentimentById(feedback, ret.arg.videos[1].id) = "positive"
  /\ findSentimentById(feedback, ret.arg.videos[2].id) = "negative"
  /\ ret.out = <<ret.arg.videos[3]>>

\* C13: with the heuristic filter on, the list returned holds exactly the
\* unlabeled candidates whose heuristic score is at least the threshold the
\* caller passed (no model, maxResults not below the number of candidates).
C13_FilterUsesThreshold ==
  /\ cleanCall /\ ret.arg.useCustomFiltering /\ persisted = NoRow
  /\ ret.arg.maxResults >= Len(ret.arg.videos)
  => ret.out = SelectSeq(unlabeled(ret.arg.videos, feedback),
                         LAMBDA v : v.heuristic >= ret.arg.authenticityThreshold)

\* the list the last call had before ranking
preRanking ==
  slice0(filterStep(exclusionStep(ret.arg.videos, feedback, ret.arg.fails),
                    ret.arg.useCustomFiltering, ret.arg.authenticityThreshold,
                    feedback, ret.arg.fails),
         ret.arg.maxResults)

\* the score an item is ranked by: the model's, 0.5 for null
rankScore(v) ==
  LET score == scoreWith(cachedModel, v, feedback)
  IN IF score = NoModel THEN 50 ELSE score.value

\* out is base reordered by descending score, equal scores in the order of base
isStableDescending(out, base) ==
  /\ Len(out) = Len(base)
  /\ \E f \in [1..Len(base) -> 1..Len(base)] :
       /\ \A i, j \in 1..Len(base) : f[i] = f[j] => i = j
       /\ \A i \in 1..Len(base) : out[i] = base[f[i]]
       /\ \A i, j \in 1..Len(base) :
            i < j => \/ rankScore(out[i]) > rankScore(out[j])
                     \/ rankScore(out[i]) = rankScore(out[j]) /\ f[i] < f[j]

\* C15: when a valid artifact is stored, the list returned is the truncated
\* list in descending order of model score, items of equal score in the order
\* they had before ranking.
C15_StableRanking ==
  cleanCall /\ validStored(persisted) => isStableDescending(ret.out, preRanking)

\* C15 witness: three candidates came back reordered, the lowest score last
\* and the two of equal score in their earlier order
C15_Witness ==
  /\ cleanCall /\ validStored(persisted)
  /\ Len(ret.out) = 3 /\ ret.out # preRanking
  /\ rankScore(ret.out[1]) = rankScore(ret.out[2])
  /\ ret.out[1] # ret.out[2]
  /\ rankScore(ret.out[2]) > rankScore(ret.out[3])
  /\ ret.out[3] = preRanking[1]

\* C16: whichever step fails, a list is returned and the other steps have
\* run: a failed feedback read keeps every candidate, a failed filter keeps
\* the list it was given, and a failed availability test or a failed scoring
\* keeps the truncated list in its order.
C16_FailuresDegrade ==
  ret.op = "applyFiltersAndRank" =>
    LET fails == ret.arg.fails
        afterExclusion ==
          IF "feedback" \in fails THEN ret.arg.videos
          ELSE unlabeled(ret.arg.videos, feedback)
        afterFilter ==
          IF "filter" \in fails \/ ~ret.arg.useCustomFiltering THEN afterExclusion
          ELSE SelectSeq(afterExclusion, LAMBDA v : v.heuristic >= 40)
        cut == slice0(afterFilter, ret.arg.maxResults)
    IN IF "available" \in fails \/ "score" \in fails \/ ~validStored(persisted)
         THEN ret.out = cut
         ELSE isStableDescending(ret.out, cut)

\* C16 witness: the feedback read failed, a labeled candidate was returned,
\* and the filter and the ranking still ran: a candidate scored below 0.4 was
\* dropped and the rest came back reordered
C16_Witness ==
  /\ ret.op = "applyFiltersAndRank" /\ ret.arg.fails = {"feedback"}
  /\ ret.arg.useCustomFiltering /\ ret.arg.maxResults = 5
  /\ \E i \in 1..Len(ret.out) : findSentimentById(feedback, ret.out[i].id) # Null
  /\ Len(ret.out) = 2 /\ Len(ret.arg.videos) = 3
  /\ rankScore(ret.out[1]) > rankScore(ret.out[2])
  /\ \E i, j \in 1..3 : i < j /\ ret.arg.videos[i] = ret.out[2]
                          /\ ret.arg.videos[j] = ret.out[1]

\* out holds the items of base, each as often as base does
isRearrangement(out, base) ==
  /\ Len(out) = Len(base)
  /\ \E f \in [1..Len(base) -> 1..Len(base)] :
       /\ \A i, j \in 1..Len(base) : f[i] = f[j] => i = j
       /\ \A i \in 1..Len(base) : out[i] = base[f[i]]

\* the list the last call had after exclusion and filtering
afterFiltering ==
  LET fails == ret.arg.fails
      afterExclusion == IF "feedback" \in fails THEN ret.arg.videos
                        ELSE unlabeled(ret.arg.videos, feedback)
  IN IF "filter" \in fails \/ ~ret.arg.useCustomFiltering THEN afterExclusion
     ELSE SelectSeq(afterExclusion, LAMBDA v : v.heuristic >= 40)

\* C25: for maxResults >= 0 the list returned has at most maxResults items and
\* holds exactly the first maxResults items left after exclusion and
\* filtering; ranking only reorders them.
C25_TruncationBeforeRanking ==
  ret.op = "applyFiltersAndRank" /\ ret.arg.maxResults >= 0 =>
    /\ Len(ret.out) <= ret.arg.maxResults
    /\ isRearrangement(ret.out, firstN(afterFiltering, ret.arg.maxResults))

\* C25 witness: of three unlabeled candidates the third outscores the first,
\* and the call for two returned the first two, reordered, without the third
C25_Witness ==
  /\ cleanCall /\ validStored(persisted) /\ ret.arg.maxResults = 2
  /\ Len(afterFiltering) = 3
  /\ rankScore(afterFiltering[3]) > rankScore(afterFiltering[1])
  /\ ret.out = <<afterFiltering[2], afterFiltering[1]>>
  /\ afterFiltering[3] # afterFiltering[2]

----------------------------------------------------------------------------
(* The heuristic filter called again and again on any feedback store *)

\* Calls with the filter on, no failing step and no truncation
NextThreshold ==
  \/ \E id \in {IdA, IdB, IdC} : addPositiveFeedback(id, NoMetadata)
  \/ \E id \in {IdA, IdB, IdC} : removeFeedback(id)
  \/ \E vs \in CandidateLists, t \in Thresholds :
       applyFiltersAndRank(vs, MaxCandidates, TRUE, t, {})

SpecThreshold == InitPipeline /\ [][NextThreshold]_vars

\* C14: of two calls in a row on the same candidates and the same feedback
\* store, the second made with a threshold no lower than the first returns no
\* more items than the first.
C14_ThresholdMonotone ==
  [][ /\ ret.op = "applyFiltersAndRank" /\ ret'.op = "applyFiltersAndRank"
      /\ ret'.arg.videos = ret.arg.videos
      /\ ret'.arg.authenticityThreshold >= ret.arg.authenticityThreshold
      => Len(ret'.out) <= Len(ret.out)
    ]_vars

\* C14 witness: a call with the higher threshold on a list with an unlabeled
\* candidate scored below 0.4 and one scored between the two thresholds; the
\* filter dropped the first and kept the second
C14_Witness ==
  /\ ret.op = "applyFiltersAndRank"
  /\ ret.arg.authenticityThreshold = 60
  /\ Len(ret.arg.videos) = MaxCandidates
  /\ \E i \in 1..Len(ret.arg.videos) :
       /\ ret.arg.videos[i].heuristic < 40
       /\ findSentimentById(feedback, ret.arg.videos[i].id) = Null
  /\ \E i \in 1..Len(ret.out) : ret.out[i].heuristic \in 40..59

----------------------------------------------------------------------------
(* Training and model reads interleaved at their awaits *)

\* the store of an earlier run, with and without enough samples to train on
InitModelConc ==
  /\ feedback \in {OldFeedback, OldFeedback \ {feedbackRow(IdB, "positive", NoMetadata)}}
  /\ videos = <<>>
  /\ clock = 0
  /\ persisted \in InitRaws
  /\ cachedModel = NoModel
  /\ ret = Ret("start", NoModel, NoModel)
  /\ calls = [p \in Callers |-> IdleCall]

NextModelConc ==
  \/ \E p \in Callers : beginRead(p, "loadModel", NoModel)
  \/ \E p \in Callers : beginRead(p, "isModelAvailable", NoModel)
  \/ \E p \in Callers, v \in ScoreVideos : beginRead(p, "scoreVideo", v)
  \/ \E p \in Callers : finishRead(p)
  \/ \E p \in Callers : scoreReadPositive(p)
  \/ \E p \in Callers : scoreReadNegative(p)
  \/ \E p \in Callers : trainBegin(p)
  \/ \E p \in Callers : trainReadNegative(p)
  \/ \E p \in Callers : trainPatternsPositive(p)
  \/ \E p \in Callers : trainPatternsNegative(p)
  \/ \E p \in Callers : trainSave(p)
  \/ \E p \in Callers : trainFinish(p)

SpecModelConc == InitModelConc /\ [][NextModelConc]_vars

\* the artifact is one modelData built: its weights, bias, trainedAt and counts
\* all come from the same run
whole(a) ==
  a = modelData(a.bias.fit.positive, a.bias.fit.negative, a.bias.fit.patterns,
                a.bias.fit.at)

\* C9: whatever training calls are in progress, the artifact a model read
\* returns or scores with is one complete artifact: loadModel returns null or
\* an artifact whose weights, bias, trainedAt and counts come from one run,
\* scoreVideo scores with weights and bias of one run, and the cache holds
\* nothing else.
C9_ReadSeesWholeArtifact ==
  /\ ret.op = "loadModel" /\ ret.out # NoModel => whole(ret.out)
  /\ ret.op = "scoreVideo" /\ ret.out # NoModel =>
       ret.out.weights = weightsOf(ret.out.bias.fit)
  /\ cachedModel # NoModel => whole(cachedModel)

\* C9 witness: a loadModel that read the store while a training call stood
\* between its setValue and its cache assignment, over an older valid
\* artifact, and returned the artifact that call had just written
C9_Witness ==
  /\ ret.op = "loadModel" /\ ret.out # NoModel /\ ret.out # OldModel
  /\ \E q \in Callers : calls[q].pc = "saved" /\ calls[q].data = ret.out
  /\ cachedModel = ret.out

\* no trainModel call and no model read is in flight
quiescent == \A p \in Callers : calls[p].pc = "idle"

\* C29: whenever no trainModel call and no model read is in flight, a
\* non-empty cache holds the artifact that is persisted.
C29_CacheMatchesStore ==
  quiescent /\ cachedModel # NoModel => persisted = stringify(cachedModel)

----------------------------------------------------------------------------
(* trainModel interleaved with feedback writes *)

InitTrainRace ==
  /\ feedback = OldFeedback
  /\ videos = <<>>
  /\ clock = 0
  /\ persisted = NoRow
  /\ cachedModel = NoModel
  /\ ret = Ret("start", NoModel, NoModel)
  /\ calls = [p \in Callers |-> IdleCall]

\* A feedback write is one statement and runs between two steps of a training
NextTrainRace ==
  \/ addNegativeFeedback(IdA, NoMetadata)
  \/ addPositiveFeedback(IdA, Meta1)
  \/ removeFeedback(IdD)
  \/ addNegativeFeedback(IdD, NoMetadata)
  \/ trainBegin("c1")
  \/ trainReadNegative("c1")
  \/ trainPatternsPositive("c1")
  \/ trainPatternsNegative("c1")
  \/ trainSave("c1")
  \/ trainFinish("c1")

SpecTrainRace == InitTrainRace /\ [][NextTrainRace]_vars

\* the examples and the patterns of a run come from one feedback set: no id is
\* an example of both labels, and the patterns were mined from the examples
oneSet(f) ==
  /\ DOMAIN f.positive \cap DOMAIN f.negative = {}
  /\ f.patterns = [positive |-> f.positive, negative |-> f.negative]

\* C21: the artifact a trainModel run persists was fitted on examples and
\* patterns of one feedback set, and its counts are the sizes of that set.
C21_TrainsOnOneSet ==
  parses(persisted) /\ parse(persisted).type = "object" =>
    LET a == parse(persisted)
    IN /\ oneSet(a.bias.fit)
       /\ a.positiveCount = Cardinality(DOMAIN a.bias.fit.patterns.positive)
       /\ a.negativeCount = Cardinality(DOMAIN a.bias.fit.patterns.negative)

----------------------------------------------------------------------------
(* applyFiltersAndRank interleaved with feedback writes: the pipeline reads  *)
(* the positive ids and the negative ids at two awaits                      *)

\* applyFiltersAndRank up to `await getPositiveFeedback()`
rankReadPositive(p, vs, maxResults) ==
  /\ calls[p].pc = "idle"
  /\ calls' = [calls EXCEPT ![p] = [IdleCall EXCEPT !.pc = "negativeIds",
                                      !.op = "applyFiltersAndRank",
                                      !.data = [videos |-> vs, maxResults |-> maxResults],
                                      !.positive = getPositiveFeedback(feedback)]]
  /\ UNCHANGED <<feedback, videos, clock, persisted, cachedModel, ret>>

\* applyFiltersAndRank from `await getNegativeFeedback()` to its return, the
\* heuristic filter off
rankReadNegative(p) ==
  /\ calls[p].pc = "negativeIds"
  /\ LET allFeedbackIds == calls[p].positive \cup getNegativeFeedback(feedback)
         r == rankedFrom(withoutIds(calls[p].data.videos, allFeedbackIds),
                         calls[p].data.maxResults, FALSE, 40, {},
                         feedback, cachedModel, persisted)
     IN /\ cachedModel' = r.cache
        /\ ret' = Ret("applyFiltersAndRank",
                      [videos |-> calls[p].data.videos,
                       maxResults |-> calls[p].data.maxResults,
                       useCustomFiltering |-> FALSE, authenticityThreshold |-> 40,
                       fails |-> {}],
                      r.out)
  /\ calls' = [calls EXCEPT ![p] = IdleCall]
  /\ UNCHANGED <<feedback, videos, clock, persisted>>

\* the records the store holds from the start; no action of this
\* specification removes a record
RaceFeedback ==
  {feedbackRow(IdA, "positive", NoMetadata), feedbackRow(IdC, "negative", Meta1)}

InitExclusionRace ==
  /\ feedback = RaceFeedback
  /\ videos = <<>>
  /\ clock = 0
  /\ persisted \in {NoRow, stringify(OldModel)}
  /\ cachedModel = NoModel
  /\ ret = Ret("start", NoModel, NoModel)
  /\ calls = [p \in Callers |-> IdleCall]

NextExclusionRace ==
  \/ \E id \in {IdA, IdC} : addPositiveFeedback(id, NoMetadata)
  \/ \E id \in {IdA, IdB, IdC} : addNegativeFeedback(id, NoMetadata)
  \/ \E vs \in {<<Candidate(IdA, 50, 30), Candidate(IdB, 30, 70), Candidate(IdC, 40, 70)>>,
                <<Candidate(IdC, 40, 70), Candidate(IdB, 30, 70)>>}, n \in {1, 5} :
       rankReadPositive("c1", vs, n)
  \/ rankReadNegative("c1")

SpecExclusionRace == InitExclusionRace /\ [][NextExclusionRace]_vars

\* C28: an id that has a feedback record during the whole of an
\* applyFiltersAndRank call is not in the list the call returns, whatever
\* upserts change its sentiment meanwhile.
C28_LabeledNeverReturned ==
  ret.op = "applyFiltersAndRank" =>
    \A i \in 1..Len(ret.out) : \A r \in RaceFeedback : ret.out[i].id # r.id

----------------------------------------------------------------------------
(* Search: the pool first, the YouTube API only when needed                *)

maxPagesToSearch == 20

maxTotalVideosToFetch == 1000

\* the features scoreVideo extracts from a video, carried with it
withFeatures(v) == v @@ [heuristic |-> 50, affinity |-> IF v.id = IdA THEN 30 ELSE 70]

VIDEOS_PER_PAGE == 2

\* The API as a query sees it: the pages of search.list, each with its items
\* and whether a next page token came with it.  A page token is the number of
\* the page it asks for, 0 for none.
ApiPage(items, more) == [items |-> items, more |-> more]

ApiItem(video, long) == [video |-> video, long |-> long]

\* one search.list request (with its videos.list request)
searchList(api, pageToken) ==
  LET k == IF pageToken = 0 THEN 1 ELSE pageToken
  IN IF k <= Len(api)
       THEN [items |-> api[k].items, nextPageToken |-> IF api[k].more THEN k + 1 ELSE 0]
       ELSE [items |-> <<>>, nextPageToken |-> 0]

\* the loop of searchYouTubeVideos: items shorter than the minimum duration
\* are skipped, and without a page token it goes on to the next page
RECURSIVE searchLoop(_, _, _, _, _, _, _, _)
searchLoop(api, currentPageToken, allVideos, totalFetched, requests, maxResults, maxFetchAttempts, fetchSinglePage) ==
  IF ~(Len(allVideos) < maxResults /\ totalFetched < maxFetchAttempts)
    THEN [videos |-> allVideos, nextPageToken |-> currentPageToken, requests |-> requests]
    ELSE LET searchData == searchList(api, currentPageToken)
             kept == SelectSeq(searchData.items, LAMBDA item : item.long)
             all == slice0(allVideos \o [i \in 1..Len(kept) |-> kept[i].video], maxResults)
         IN IF searchData.nextPageToken = 0 \/ fetchSinglePage
              THEN [videos |-> all, nextPageToken |-> searchData.nextPageToken,
                    requests |-> requests + 1]
              ELSE searchLoop(api, searchData.nextPageToken, all,
                              totalFetched + Len(searchData.items), requests + 1,
                              maxResults, maxFetchAttempts, fetchSinglePage)

searchYouTubeVideos(api, maxResults, initialFetchCount, pageToken) ==
  searchLoop(api, pageToken, <<>>, 0, 0, maxResults, initialFetchCount, pageToken # 0)

\* the fetch loop of searchVideosWithFiltering
RECURSIVE fetchPages(_, _, _, _, _, _, _, _, _)
fetchPages(api, nextPageToken, pageCount, requests, allFetchedVideos, totalFetched, maxResults, fb, fails) ==
  IF ~(/\ Len(allFetchedVideos) < maxResults
       /\ totalFetched < maxTotalVideosToFetch
       /\ pageCount < maxPagesToSearch)
    THEN [all |-> allFetchedVideos, pageCount |-> pageCount, requests |-> requests]
    ELSE LET pageResult == searchYouTubeVideos(api, VIDEOS_PER_PAGE, VIDEOS_PER_PAGE,
                                               nextPageToken)
             pageVideos == pageResult.videos
             filteredPageVideos == IF "feedback" \in fails THEN pageVideos
                                   ELSE excludeFeedback(pageVideos, fb)
             all == allFetchedVideos \o filteredPageVideos
             used == requests + pageResult.requests
         IN IF Len(pageVideos) = 0
              THEN [all |-> allFetchedVideos, pageCount |-> pageCount + 1, requests |-> used]
              ELSE IF Len(all) >= maxResults \/ pageResult.nextPageToken = 0
                THEN [all |-> all, pageCount |-> pageCount + 1, requests |-> used]
                ELSE fetchPages(api, pageResult.nextPageToken, pageCount + 1, used, all,
                                totalFetched + Len(pageVideos), maxResults, fb, fails)

POOL_SEARCH_LIMIT(maxResults) == IF maxResults * 5 > 200 THEN maxResults * 5 ELSE 200

\* the pool step answers the search with an API key only when it found something
servesFromPoolNever(usePoolFirst, filtered) == FALSE

servesFromPool(usePoolFirst, filtered) == usePoolFirst /\ Len(filtered) > 0

SearchArg(query, hasApiKey, usePoolFirst, maxResults, fails, matched, fromPool) ==
  [query |-> query, hasApiKey |-> hasApiKey, usePoolFirst |-> usePoolFirst,
   maxResults |-> maxResults, fails |-> fails, matched |-> matched,
   fromPool |-> fromPool]

SearchResult(vs, poolOnly, apiCalls, error) ==
  [videos |-> vs, poolOnly |-> poolOnly, apiCalls |-> apiCalls, error |-> error]

searchVideosWithFiltering(query, hasApiKey, usePoolFirst, maxResults, fails, feed) ==
  IF isBlank(query)
    THEN /\ ret' = Ret("searchVideosWithFiltering",
                       SearchArg(query, hasApiKey, usePoolFirst, maxResults, fails, 0, <<>>),
                       SearchResult(<<>>, FALSE, 0, TRUE))
         /\ UNCHANGED <<calls, feedback, videos, clock, persisted, cachedModel>>
    ELSE
      \E candidates \in (IF (hasApiKey /\ ~usePoolFirst) \/ "pool" \in fails \/ Len(videos) = 0
                           THEN {<<>>}
                           ELSE searchPoolResults(videos, query, POOL_SEARCH_LIMIT(maxResults))) :
        LET pool == IF Len(candidates) > 0
                      THEN rankedList([i \in 1..Len(candidates) |-> withFeatures(candidates[i])],
                                      maxResults, FALSE, Undefined, {},
                                      feedback, cachedModel, persisted)
                      ELSE [out |-> <<>>, cache |-> cachedModel]
            arg == SearchArg(query, hasApiKey, usePoolFirst, maxResults, fails,
                             Len(candidates), pool.out)
        IN IF ~hasApiKey
             THEN /\ ret' = Ret("searchVideosWithFiltering", arg,
                                SearchResult(pool.out, TRUE, 0, FALSE))
                  /\ cachedModel' = pool.cache
                  /\ UNCHANGED <<calls, feedback, videos, clock, persisted>>
             ELSE IF servesFromPool(usePoolFirst, pool.out)
               THEN /\ ret' = Ret("searchVideosWithFiltering", arg,
                                  SearchResult(pool.out, FALSE, 0, FALSE))
                    /\ cachedModel' = pool.cache
                    /\ UNCHANGED <<calls, feedback, videos, clock, persisted>>
               ELSE
                 LET fetched == fetchPages(feed, 0, 0, 0, <<>>, 0, maxResults, feedback, fails)
                     allFetchedVideos == fetched.all
                     inserts == mapVideoToInsert(filterHasId(allFetchedVideos))
                     truncated == slice0([i \in 1..Len(allFetchedVideos) |->
                                            withFeatures(allFetchedVideos[i])], maxResults)
                     loaded == loadModelFromDb(pool.cache, persisted)
                     ranked ==
                       IF loaded.out # NoModel
                         THEN LET sorted == sortByScoreDesc(
                                    scoreAll(truncated, loaded.cache, persisted, feedback))
                              IN [i \in 1..Len(sorted) |-> sorted[i].video]
                         ELSE truncated
                 IN /\ ret' = Ret("searchVideosWithFiltering", arg,
                                  SearchResult(ranked, FALSE, fetched.requests, FALSE))
                    /\ cachedModel' = loaded.cache
                    /\ IF Len(allFetchedVideos) > 0 /\ "pool" \notin fails
                         THEN \E ticks \in TickSeqs(Len(inserts)) :
                                /\ clock + sumTicks(ticks) <= MaxClock
                                /\ LET ins == insertMany(videos, inserts, ticks, clock)
                                   IN /\ videos' \in evictOldest(ins.rows)
                                      /\ clock' = ins.now
                         ELSE UNCHANGED <<videos, clock>>
                    /\ UNCHANGED <<calls, feedback, persisted>>

ApiVideos ==
  [a |-> Video(IdA, <<"a", "b">>, UndefinedText),
   b |-> Video(IdB, <<"a", "b">>, UndefinedText),
   d |-> Video(IdD, <<"a", "b">>, UndefinedText)]

\* what the API has for a query: nothing; one page; a page that is not full
\* and a second one, with an item too short to be kept; a full page and more
Feeds ==
  {<<>>,
   <<ApiPage(<<ApiItem(ApiVideos.d, TRUE)>>, FALSE)>>,
   <<ApiPage(<<ApiItem(ApiVideos.a, TRUE)>>, TRUE),
     ApiPage(<<ApiItem(ApiVideos.b, FALSE), ApiItem(ApiVideos.d, TRUE)>>, FALSE)>>,
   <<ApiPage(<<ApiItem(ApiVideos.a, TRUE), ApiItem(ApiVideos.b, FALSE)>>, TRUE),
     ApiPage(<<ApiItem(ApiVideos.b, TRUE), ApiItem(ApiVideos.d, TRUE)>>, FALSE)>>}

SearchQueries == {<<SP>>, <<"a", "b">>, <<"z", "z">>}

SearchMaxResults == {0, 2}

InitPoolFirst == Init /\ persisted \in {NoRow, stringify(OldModel)}

NextPoolFirst ==
  \/ delivered /\ \E b \in {<<ApiVideos.a>>, <<ApiVideos.a, ApiVideos.b>>} : addToPool(b)
  \/ delivered /\ \E id \in {IdA, IdB} : addNegativeFeedback(id, NoMetadata)
  \/ delivered /\ \E id \in {IdA, IdB} : removeFeedback(id)
  \/ delivered /\ \E q \in SearchQueries, k \in BOOLEAN, u \in BOOLEAN,
                     n \in SearchMaxResults, fails \in SUBSET {"pool", "feedback"},
                     feed \in Feeds :
                    searchVideosWithFiltering(q, k, u, n, fails, feed)
  \/ deliver

SpecPoolFirst == InitPoolFirst /\ [][NextPoolFirst]_vars

isSearch == ret.op = "searchVideosWithFiltering" /\ ~ret.out.error

min(a, b) == IF a < b THEN a ELSE b

max(a, b) == IF a > b THEN a ELSE b

----------------------------------------------------------------------------
(* Pool seeding: POST /api/pool (routes/api/pool.ts) *)

MAX_PAGES_PER_QUERY == 5

MAX_QUERIES == 10

\* the number in body.maxPagesPerQuery, in tenths; absent (or null) when the
\* body has none
NoNumber == [present |-> FALSE, tenths |-> 0]

Tenths(n) == [present |-> TRUE, tenths |-> n]

\* Math.min(MAX_PAGES_PER_QUERY, Math.max(1, body.maxPagesPerQuery ?? 2)), in tenths
pagesPerQuery(maxPagesPerQuery) ==
  min(MAX_PAGES_PER_QUERY * 10,
      max(10, IF maxPagesPerQuery.present THEN maxPagesPerQuery.tenths ELSE 20))

\* rawQueries filtered, trimmed and cut to MAX_QUERIES
seedQueries(rawQueries) ==
  LET nonBlank == SelectSeq(rawQueries, LAMBDA q : Len(trim(q)) > 0)
  IN slice0([i \in 1..Len(nonBlank) |-> trim(nonBlank[i])], MAX_QUERIES)

\* the while loop of one query
RECURSIVE seedQuery(_, _, _, _, _, _)
seedQuery(api, nextPageToken, pagesFetched, fetchedVideos, requests, maxPages) ==
  IF ~(pagesFetched * 10 < maxPages)
    THEN [videos |-> fetchedVideos, pagesFetched |-> pagesFetched, requests |-> requests]
    ELSE LET result == searchYouTubeVideos(api, VIDEOS_PER_PAGE, VIDEOS_PER_PAGE,
                                           nextPageToken)
             all == fetchedVideos \o result.videos
             used == requests + result.requests
         IN IF result.nextPageToken = 0
              THEN [videos |-> all, pagesFetched |-> pagesFetched + 1, requests |-> used]
              ELSE seedQuery(api, result.nextPageToken, pagesFetched + 1, all, used, maxPages)

NothingFetched == [allVideos |-> <<>>, totalPagesUsed |-> 0, requests |-> 0, mostRequests |-> 0]

\* the for loop over the queries, from query i on; mostRequests is the largest
\* number of search.list requests made for one query
RECURSIVE seedFrom(_, _, _, _, _)
seedFrom(queries, apis, maxPages, i, done) ==
  IF i > Len(queries) THEN done
  ELSE LET one == seedQuery(apis[queries[i]], 0, 0, <<>>, 0, maxPages)
       IN seedFrom(queries, apis, maxPages, i + 1,
                   [allVideos |-> done.allVideos \o one.videos,
                    totalPagesUsed |-> done.totalPagesUsed + one.pagesFetched,
                    requests |-> done.requests + one.requests,
                    mostRequests |-> max(done.mostRequests, one.requests)])

seedAll(queries, apis, maxPages) == seedFrom(queries, apis, maxPages, 1, NothingFetched)

SeedArg(maxPagesPerQuery, queries) ==
  [maxPagesPerQuery |-> maxPagesPerQuery, queries |-> queries]

SeedResponse(status, fetched, poolTotal, poolAdded) ==
  [status |-> status, pagesUsed |-> fetched.totalPagesUsed,
   videosFetched |-> Len(fetched.allVideos), requests |-> fetched.requests,
   mostRequests |-> fetched.mostRequests, poolTotal |-> poolTotal, poolAdded |-> poolAdded]

\* POST /api/pool
seedPool(jsonContent, apiKey, rawQueries, maxPagesPerQuery, apis) ==
  LET queries == seedQueries(rawQueries.items)
  IN IF \/ ~jsonContent
        \/ isBlank(apiKey)
        \/ ~rawQueries.isArray \/ Len(rawQueries.items) = 0
        \/ Len(queries) = 0
       THEN /\ ret' = Ret("seedPool", SeedArg(maxPagesPerQuery, 0),
                          SeedResponse(400, NothingFetched, 0, 0))
            /\ UNCHANGED <<calls, feedback, videos, clock, persisted, cachedModel>>
       ELSE LET fetched == seedAll(queries, apis, pagesPerQuery(maxPagesPerQuery))
                inserts == mapVideoToInsert(filterHasId(fetched.allVideos))
            IN \E ticks \in TickSeqs(Len(inserts)) :
                 /\ clock + sumTicks(ticks) <= MaxClock
                 /\ LET ins == insertMany(videos, inserts, ticks, clock)
                    IN /\ videos' \in evictOldest(ins.rows)
                       /\ clock' = ins.now
                       /\ ret' = Ret("seedPool", SeedArg(maxPagesPerQuery, Len(queries)),
                                     SeedResponse(200, fetched, count(videos'), ins.added))
                 /\ UNCHANGED <<calls, feedback, persisted, cachedModel>>

QueryQ == <<"q">>

QueryR == <<"r">>

QueryS == <<"s">>

RawQueryLists ==
  {[isArray |-> FALSE, items |-> <<>>],
   [isArray |-> TRUE, items |-> <<>>],
   [isArray |-> TRUE, items |-> <<<<SP>>>>],
   [isArray |-> TRUE, items |-> <<QueryQ>>],
   [isArray |-> TRUE, items |-> <<<<SP, "q">>, <<>>, QueryR>>],
   [isArray |-> TRUE, items |-> [i \in 1..(MAX_QUERIES + 2) |-> QueryS]]}

MaxPagesInputs == {NoNumber, Tenths(0), Tenths(10), Tenths(25), Tenths(70)}

ShortsPage == ApiPage(<<ApiItem(ApiVideos.a, FALSE), ApiItem(ApiVideos.b, FALSE)>>, TRUE)

\* feeds for seeding: the feeds of a search, and one of six and a half pages
\* with a single video long enough to be kept
SeedFeeds ==
  Feeds \cup
  {<<ShortsPage, ShortsPage, ShortsPage, ShortsPage, ShortsPage, ShortsPage,
     ApiPage(<<ApiItem(ApiVideos.d, TRUE)>>, FALSE)>>}

\* what the API has for each query of the request
SeedApis ==
  {[q \in {QueryQ, QueryR, QueryS} |->
      IF q = QueryQ THEN fq ELSE IF q = QueryR THEN fr ELSE <<>>] :
     fq \in SeedFeeds, fr \in SeedFeeds}

NextSeed ==
  \/ delivered /\ \E j \in BOOLEAN, k \in {<<>>, <<"k">>}, qs \in RawQueryLists,
                     m \in MaxPagesInputs, apis \in SeedApis :
                    seedPool(j, k, qs, m, apis)
  \/ delivered /\ \E b \in {<<ApiVideos.a>>, <<ApiVideos.a, ApiVideos.b>>} : addToPool(b)
  \/ deliver

SpecSeed == InitPool /\ [][NextSeed]_vars

seeded == ret.op = "seedPool" /\ ret.out.status = 200

\* C27: a seeding request fetches at most min(5, max(1, maxPagesPerQuery))
\* search pages for each of at most 10 queries, at most 50 in all, and leaves
\* the pool within its size.
C27_SeedingBounded ==
  seeded =>
    /\ ret.arg.queries <= MAX_QUERIES
    /\ ret.out.mostRequests * 10 <= pagesPerQuery(ret.arg.maxPagesPerQuery)
    /\ ret.out.requests <= MAX_QUERIES * MAX_PAGES_PER_QUERY
    /\ ret.out.poolTotal <= MAX_POOL_SIZE

----------------------------------------------------------------------------
(* The heuristic score of analyzeVideo (services/gemini.server.ts).  Scores *)
(* are in thousandths: 500 is 0.5.  A video is given by what the code reads *)
(* of it: the counts its title and description are tested for, its counts   *)
(* of views and likes, its channel and its keywords.                        *)

\* detectClickbait(title)
detectClickbait(title) ==
  min((IF 2 * title.capitals > title.length THEN 300 ELSE 0)
      + (IF title.emojis > 2 THEN 200 ELSE 0)
      + 200 * title.phrases
      + (IF title.exclamations > 2 \/ title.questions > 2 THEN 100 ELSE 0),
      1000)

\* a count as the API gives it: absent or empty, a text parseInt makes NaN of,
\* or a number
NoCount == [present |-> FALSE, numeric |-> FALSE, value |-> 0]

NaNCount == [present |-> TRUE, numeric |-> FALSE, value |-> 0]

NumCount(n) == [present |-> TRUE, numeric |-> TRUE, value |-> n]

\* likes / views > num / 1000, false when either is NaN
ratioAbove(likes, views, num) ==
  /\ likes.numeric /\ views.numeric
  /\ IF views.value > 0 THEN likes.value * 1000 > num * views.value
     ELSE likes.value * 1000 < num * views.value

\* calculateEngagementScore(viewCount, likeCount)
calculateEngagementScore(viewCount, likeCount) ==
  IF ~viewCount.present \/ ~likeCount.present THEN 500
  ELSE IF viewCount.numeric /\ viewCount.value = 0 THEN 300
  ELSE IF ratioAbove(likeCount, viewCount, 10) THEN 800
  ELSE IF ratioAbove(likeCount, viewCount, 5) THEN 600
  ELSE IF ratioAbove(likeCount, viewCount, 1) THEN 400
  ELSE 200

\* analyzeDescription(description)
analyzeDescription(description) ==
  IF description.blank THEN 300
  ELSE max(0, min(1000,
         500 + (IF description.length > 200 THEN 100 ELSE 0)
             - (IF description.selfPromotion THEN 200 ELSE 0)
             - (IF description.links > 3 THEN 100 ELSE 0)))

NoPatterns == [present |-> FALSE, positiveKeywords |-> {}, negativeKeywords |-> {},
               positiveChannels |-> {}, negativeChannels |-> {}]

Patterns(pk, nk, pc, nc) ==
  [present |-> TRUE, positiveKeywords |-> pk, negativeKeywords |-> nk,
   positiveChannels |-> pc, negativeChannels |-> nc]

\* the matches analyzeVideo counts: one for each keyword of the video among
\* the keywords of a label, two for its channel
positiveMatches(video, patterns) ==
  Cardinality(video.keywords \cap patterns.positiveKeywords)
  + (IF video.channelTitle \in patterns.positiveChannels THEN 2 ELSE 0)

negativeMatches(video, patterns) ==
  Cardinality(video.keywords \cap patterns.negativeKeywords)
  + (IF video.channelTitle \in patterns.negativeChannels THEN 2 ELSE 0)

\* steps 1 to 5 of analyzeVideo: the score before the feedback patterns
scoreBeforeFeedback(video) ==
  LET clickbaitScore == detectClickbait(video.title)
      descScore == analyzeDescription(video.description)
      engagementScore == calculateEngagementScore(video.viewCount, video.likeCount)
  IN 500
     + (IF clickbaitScore > 300 THEN 0 - (clickbaitScore * 4) \div 10
        ELSE IF clickbaitScore < 100 THEN 100 ELSE 0)
     + ((descScore - 500) * 2) \div 10
     + ((engagementScore - 500) * 2) \div 10
     + (IF video.official THEN 50 ELSE 0)
     + (IF video.title.length < 10 THEN 0 - 100
        ELSE IF video.title.length > 100 THEN 0 - 50 ELSE 0)

\* step 6: Math.min(0.15, difference * 0.03), added or subtracted
feedbackAdjustment(video, patterns) ==
  LET pos == positiveMatches(video, patterns)
      neg == negativeMatches(video, patterns)
  IN IF ~patterns.present THEN 0
     ELSE IF pos > 0 /\ pos > neg THEN min(150, (pos - neg) * 30)
     ELSE IF neg > 0 /\ neg > pos THEN 0 - min(150, (neg - pos) * 30)
     ELSE 0

normalizeNot(score) == score

\* Math.max(0, Math.min(1, score))
normalize(score) == max(0, min(1000, score))

analyzeVideoResult(video, patterns) ==
  LET score == normalize(scoreBeforeFeedback(video) + feedbackAdjustment(video, patterns))
  IN [videoId |-> video.id, isAuthentic |-> score >= 400, score |-> score]

\* analyzeVideo(video, patterns) as a call
analyzeVideoCall(video, patterns) ==
  /\ ret' = Ret("analyzeVideo", [video |-> video, patterns |-> patterns],
                analyzeVideoResult(video, patterns))
  /\ UNCHANGED <<calls, feedback, videos, clock, persisted, cachedModel>>

Keywords == {"cat", "dog", "fox", "owl", "cat dog", "fox owl"}

TitleStats(length, capitals, emojis, phrases, exclamations, questions) ==
  [length |-> length, capitals |-> capitals, emojis |-> emojis, phrases |-> phrases,
   exclamations |-> exclamations, questions |-> questions]

HeuristicTitles ==
  {TitleStats(0, 0, 0, 0, 0, 0), TitleStats(40, 2, 0, 0, 0, 0),
   TitleStats(40, 30, 0, 0, 0, 0), TitleStats(120, 80, 3, 4, 3, 0),
   TitleStats(9, 0, 0, 1, 0, 3)}

DescriptionStats(blank, length, selfPromotion, links) ==
  [blank |-> blank, length |-> length, selfPromotion |-> selfPromotion, links |-> links]

HeuristicDescriptions ==
  {DescriptionStats(TRUE, 0, FALSE, 0), DescriptionStats(FALSE, 250, FALSE, 1),
   DescriptionStats(FALSE, 50, TRUE, 4)}

HeuristicCounts ==
  {<<NoCount, NoCount>>, <<NumCount(0), NumCount(5)>>, <<NumCount(1000), NumCount(20)>>,
   <<NumCount(1000), NumCount(8)>>, <<NumCount(1000), NumCount(2)>>,
   <<NumCount(1000), NumCount(0)>>, <<NaNCount, NumCount(3)>>}

HeuristicVideos ==
  {[id |-> IdA, title |-> t, description |-> d, viewCount |-> c[1], likeCount |-> c[2],
    official |-> o, channelTitle |-> ch, keywords |-> k] :
     t \in HeuristicTitles, d \in HeuristicDescriptions, c \in HeuristicCounts,
     o \in BOOLEAN, ch \in {"ch1", "ch2"},
     k \in {{}, {"cat"}, {"cat", "dog", "fox", "owl"}, Keywords}}

HeuristicPatterns ==
  {NoPatterns,
   Patterns(Keywords, {}, {"ch1"}, {}),
   Patterns({}, Keywords, {}, {"ch1"}),
   Patterns({"cat", "dog"}, {"cat", "fox"}, {"ch1"}, {"ch1"}),
   Patterns({"cat"}, {"cat", "dog", "fox"}, {"ch2"}, {})}

NextHeuristic ==
  \/ delivered /\ \E video \in HeuristicVideos, patterns \in HeuristicPatterns :
                    analyzeVideoCall(video, patterns)
  \/ deliver

SpecHeuristic == InitPipeline /\ [][NextHeuristic]_vars

\* what the patterns changed of the score of the last call, before the score
\* was cut to the range
adjustmentOfCall == feedbackAdjustment(ret.arg.video, ret.arg.patterns)

differenceOfCall ==
  LET v == ret.arg.video
      pt == ret.arg.patterns
      pos == Cardinality({k \in v.keywords : k \in pt.positiveKeywords})
             + (IF v.channelTitle \in pt.positiveChannels THEN 2 ELSE 0)
      neg == Cardinality({k \in v.keywords : k \in pt.negativeKeywords})
             + (IF v.channelTitle \in pt.negativeChannels THEN 2 ELSE 0)
  IN pos - neg

\* C26: the score analyzeVideo returns lies in [0, 1]; the feedback patterns
\* change it by min(0.15, 0.03 * |positive - negative matches|), upwards only
\* when the positive matches strictly exceed the negative ones and downwards
\* only when the negative strictly exceed the positive.
C26_ScoreInRange ==
  ret.op = "analyzeVideo" =>
    /\ ret.out.score >= 0 /\ ret.out.score <= 1000
    /\ ret.out.score = max(0, min(1000, scoreBeforeFeedback(ret.arg.video) + adjustmentOfCall))
    /\ adjustmentOfCall >= 0 - 150 /\ adjustmentOfCall <= 150
    /\ adjustmentOfCall > 0 =>
         differenceOfCall > 0 /\ adjustmentOfCall = min(150, 30 * differenceOfCall)
    /\ adjustmentOfCall < 0 =>
         differenceOfCall < 0 /\ adjustmentOfCall = 0 - min(150, 30 * (0 - differenceOfCall))
    /\ adjustmentOfCall = 0 => differenceOfCall = 0 \/ ~ret.arg.patterns.present

\* C26 witness: eight negative matches and none positive took 0.15, not 0.24,
\* off a score that was already below 0.15, and 0 was returned
C26_Witness ==
  /\ ret.op = "analyzeVideo"
  /\ differenceOfCall = 0 - 8
  /\ adjustmentOfCall = 0 - 150
  /\ scoreBeforeFeedback(ret.arg.video) < 150
  /\ ret.out.score = 0 /\ ~ret.out.isAuthentic

====
